---- MODULE Spec2Model ----
(***************************************************************************)
(* A model of press: the layout generator (generators/layout.py), the      *)
(* size value types (structure/size.py) and the parted command line        *)
(* interface (parted.py), the Linux target                                 *)
(* (post/targets/linux/linux_target.py) and the OMSA plugins               *)
(* (plugins/server_management/omsa.py).                                    *)
(*                                                                         *)
(* Python values are modelled as follows.                                  *)
(*   - an optional value (a missing dict key, None) is a sequence of       *)
(*     length 0 or 1: Absent, Some(v);                                     *)
(*   - a string whose characters the code inspects (a mount point, a size) *)
(*     is a tuple of one-character strings; a name that is only compared   *)
(*     or used as a dict key is a TLA+ string;                             *)
(*   - a call returns [err |-> "", val |-> v] or [err |-> "<Exception>"];  *)
(*   - an int or bool whose type matters is a tagged record PyInt / PyBool.*)
(***************************************************************************)
EXTENDS Integers, Sequences, FiniteSets, TLC

VARIABLES
    pv_linker,         \* layout.py __pv_linker__: name -> Partition / MDRaid
    partition_linker,  \* layout.py __partition_linker__: name -> Partition
    host,              \* what the host reports: UEFI boot, the disks found
    device,            \* the block device parted works on: label, size, partitions
    parted,            \* PartedInterface fields: partition_start, alignment
    target,            \* the target root: its group and user databases, the
                       \* files written into it and the commands run in it
    args,              \* the arguments of the current (or last) call
    result,            \* what the last call returned or raised
    pc                 \* position: which call is pending, or "done"

vars == <<pv_linker, partition_linker, host, device, parted, target, args, result, pc>>

----------------------------------------------------------------------------
(* Python values *)

Absent == <<>>
Some(v) == <<v>>
Has(o) == o # <<>>
Val(o) == o[1]

PyInt(n) == [t |-> "int", v |-> n]
PyFalse == [t |-> "bool", v |-> 0]
PyStr(s) == [t |-> "str", v |-> s]

Ok(v) == [err |-> "", val |-> v]
Raise(e) == [err |-> e, val |-> Absent]

EmptyDict == [k \in {} |-> Absent]
DictPut(d, k, v) == [x \in (DOMAIN d) \cup {k} |-> IF x = k THEN v ELSE d[x]]

NoCall == [op |-> "none"]
NoResult == [err |-> "", val |-> Absent, op |-> "none"]

\* a local name: K applied to the value of v, which is evaluated once
With(v, K(_)) == K(v)

----------------------------------------------------------------------------
(* Strings as tuples of characters *)

Digits == <<"0", "1", "2", "3", "4", "5", "6", "7", "8", "9">>

DigitValue(c) == (CHOOSE i \in 1..10 : Digits[i] = c) - 1

IsDigitChar(c) == \E i \in 1..10 : Digits[i] = c

\* str.isdigit(): non-empty and every character a digit
IsDigit(s) == Len(s) > 0 /\ \A i \in 1..Len(s) : IsDigitChar(s[i])

RECURSIVE IntOf(_)
\* int(s) for a string of digits
IntOf(s) ==
    IF Len(s) = 0 THEN 0
    ELSE 10 * IntOf(SubSeq(s, 1, Len(s) - 1)) + DigitValue(s[Len(s)])

\* str.find(c): 0-based index of the first c, -1 if there is none
Find(s, c) ==
    IF \E i \in 1..Len(s) : s[i] = c
    THEN (CHOOSE i \in 1..Len(s) : s[i] = c /\ \A j \in 1..(i - 1) : s[j] # c) - 1
    ELSE -1

\* str.count(c)
Count(s, c) == Cardinality({i \in 1..Len(s) : s[i] = c})

UpperChar(c) ==
    CASE c = "f" -> "F"
      [] c = "r" -> "R"
      [] c = "e" -> "E"
      [] c = "x" -> "X"
      [] OTHER -> c

\* str.upper()
Upper(s) == [i \in 1..Len(s) |-> UpperChar(s[i])]

----------------------------------------------------------------------------
(* structure/size.py: PercentString *)

PercentString(our_string) ==
    LET idx == Find(our_string, "%") IN
    IF idx = -1 \/ idx > 3 THEN Raise("ValueError")
    \* value, mod = raw_string.split('%') unpacks exactly two parts
    ELSE IF Count(our_string, "%") # 1 THEN Raise("ValueError")
    ELSE
        LET value == SubSeq(our_string, 1, idx)
            mod == SubSeq(our_string, idx + 2, Len(our_string))
        IN  IF ~IsDigit(value) THEN Raise("ValueError")
            ELSE IF IntOf(value) > 100 THEN Raise("ValueError")
            ELSE Ok([cls |-> "PercentString",
                     raw_string |-> our_string,
                     \* value * .01, kept as the number of hundredths
                     value |-> IntOf(value),
                     free |-> (Upper(mod) = <<"F", "R", "E", "E">>)])

----------------------------------------------------------------------------
(* generators/layout.py *)

MBR_LOGICAL_MAX == 128

\* the keys of _fs_selector
FsSelector == {"ext2", "ext3", "ext4", "swap", "xfs", "efi", "fat32"}

\* _fill_defaults(p, _partition_defaults): flags=list() when the key is absent
FillPartitionDefaults(p) ==
    IF Has(p.flags) THEN p ELSE [p EXCEPT !.flags = Some({})]

HasLogical(partitions) ==
    \/ \E i \in 1..Len(partitions) : partitions[i].mbr_type = Some("logical")
    \/ Len(partitions) > 4

\* MaxPrimary without the rule for more than four partitions
MaxPrimary_DeclaredOnly(partitions) ==
    IF \E i \in 1..Len(partitions) : partitions[i].mbr_type = Some("logical")
    THEN 3 ELSE 4

MaxPrimary(partitions) == IF HasLogical(partitions) THEN 3 ELSE 4

\* a mount point is truthy when it is neither None nor the empty string
Truthy(o) == Has(o) /\ Val(o) # <<>>

Root == <<"/">>

Str1MiB == <<"1", "M", "i", "B">>

FsckPass(fs_object, lv_or_part, mount_point) ==
    IF ~Has(lv_or_part.fsck_option)
    THEN
        \* fs_object.require_fsck on None raises AttributeError
        IF ~Has(fs_object) THEN Raise("AttributeError")
        ELSE IF Val(fs_object).require_fsck /\ Truthy(mount_point)
        THEN (IF Val(mount_point) = Root THEN Ok(PyInt(1)) ELSE Ok(PyInt(2)))
        ELSE Ok(PyInt(0))
    ELSE Ok(PyInt(Val(lv_or_part.fsck_option)))

GenerateSize(size) ==
    IF size.t = "str" /\ Find(size.v, "%") # -1
    THEN PercentString(size.v)
    ELSE Ok(size)

\* fs_dict is a non-empty dict: its 'type' selects the class, whose
\* require_fsck attribute the descriptor carries
GenerateFileSystem(fs_dict) ==
    LET fs_type == IF Has(fs_dict.type) THEN Val(fs_dict.type) ELSE "undefined" IN
    IF fs_type \notin FsSelector THEN Raise("GeneratorError")
    ELSE Ok([fs_type |-> fs_type, require_fsck |-> fs_dict.require_fsck])


\* The file system and fsck pass of a partition or a RAID device
\* (generate_partition lines 148-161, generate_software_raid lines 430-443)
FsAndFsck(d) ==
    With(IF Has(d.file_system) THEN GenerateFileSystem(Val(d.file_system))
         ELSE Ok(Absent), LAMBDA fs :
    IF fs.err # "" THEN Raise(fs.err)
    ELSE
    With(IF Has(d.file_system) THEN Some(fs.val) ELSE Absent, LAMBDA fs_object :
    With(IF Has(fs_object) THEN FsckPass(fs_object, d, d.mount_point)
         ELSE Ok(PyFalse), LAMBDA fsck :
    IF fsck.err # "" THEN Raise(fsck.err)
    ELSE Ok([file_system |-> fs_object, fsck_option |-> fsck.val]))))

\* a call that raised `e` with the linkers L as it leaves them
RaiseL(e, L) == [err |-> e, val |-> Absent, L |-> L]

\* L is the pair of linkers [pv, part]; the result carries the linkers after
GeneratePartition(type_or_name, partition_dict, L) ==
    With(FsAndFsck(partition_dict), LAMBDA ff :
    IF ff.err # "" THEN RaiseL(ff.err, L)
    ELSE IF ~Has(partition_dict.size) THEN RaiseL("KeyError", L)
    ELSE
    With(GenerateSize(Val(partition_dict.size)), LAMBDA sz :
    IF sz.err # "" THEN RaiseL(sz.err, L)
    ELSE
    With([cls |-> "Partition",
          type_or_name |-> type_or_name,
          size_or_percent |-> sz.val,
          flags |-> IF Has(partition_dict.flags) THEN Val(partition_dict.flags) ELSE {},
          file_system |-> ff.val.file_system,
          mount_point |-> partition_dict.mount_point,
          fsck_option |-> ff.val.fsck_option], LAMBDA p :
    IF ~Has(partition_dict.name) THEN RaiseL("KeyError", L)
    ELSE [err |-> "", val |-> p,
          L |-> [pv |-> IF "lvm" \in p.flags
                        THEN DictPut(L.pv, Val(partition_dict.name), p) ELSE L.pv,
                 part |-> DictPut(L.part, Val(partition_dict.name), p)]])))

\* One iteration of the loop of _generate_mbr_partitions: the role given to
\* `partition` with the counters so far, or the error raised
MbrRole(partition, max_primary, primary_count, logical_count) ==
    IF Has(partition.mbr_type) /\ Val(partition.mbr_type) # ""
    THEN
        LET explicit_name == Val(partition.mbr_type) IN
        IF explicit_name = "primary"
        THEN IF primary_count >= max_primary THEN Raise("GeneratorError")
             ELSE Ok([type |-> explicit_name, primary |-> primary_count + 1,
                      logical |-> logical_count])
        ELSE IF explicit_name = "logical"
        THEN IF logical_count > MBR_LOGICAL_MAX THEN Raise("GeneratorError")
             ELSE Ok([type |-> explicit_name, primary |-> primary_count,
                      logical |-> logical_count + 1])
        ELSE Ok([type |-> explicit_name, primary |-> primary_count,
                 logical |-> logical_count])
    ELSE
        IF primary_count < max_primary
        THEN Ok([type |-> "primary", primary |-> primary_count + 1,
                 logical |-> logical_count])
        ELSE IF logical_count > MBR_LOGICAL_MAX THEN Raise("GeneratorError")
             ELSE Ok([type |-> "logical", primary |-> primary_count,
                      logical |-> logical_count + 1])


\* The body of the loop of _generate_mbr_partitions for one partition; st holds
\* the loop's variables: primary_count, logical_count, partitions, the linkers
MbrStep(partition, max_primary, st) ==
    With(MbrRole(partition, max_primary, st.primary_count, st.logical_count), LAMBDA r :
    IF r.err # "" THEN [st EXCEPT !.err = r.err]
    ELSE
    With(GeneratePartition(r.val.type, partition, st.L), LAMBDA g :
    IF g.err # "" THEN [st EXCEPT !.err = g.err, !.L = g.L]
    ELSE [err |-> "", partitions |-> Append(st.partitions, g.val), L |-> g.L,
          primary_count |-> r.val.primary, logical_count |-> r.val.logical]))

RECURSIVE MbrWalk(_, _, _, _, _)
\* The loop of _generate_mbr_partitions over partition_dicts[lo..hi], in order
\* and stopping at the first error; the range is walked by halves so that the
\* depth of evaluation stays logarithmic in the length of the list
MbrWalk(partition_dicts, lo, hi, max_primary, st) ==
    IF st.err # "" \/ lo > hi THEN st
    ELSE IF lo = hi THEN MbrStep(partition_dicts[lo], max_primary, st)
    ELSE
    With(MbrWalk(partition_dicts, lo, (lo + hi) \div 2, max_primary, st), LAMBDA left :
    IF left.err # "" THEN left
    ELSE MbrWalk(partition_dicts, ((lo + hi) \div 2) + 1, hi, max_primary, left))

GenerateMbrPartitions(partition_dicts, L) ==
    With(MbrWalk(partition_dicts, 1, Len(partition_dicts), MaxPrimary(partition_dicts),
                 [err |-> "", partitions |-> <<>>, L |-> L,
                  primary_count |-> 0, logical_count |-> 0]), LAMBDA st :
    [err |-> st.err, val |-> IF st.err = "" THEN st.partitions ELSE Absent, L |-> st.L])

RECURSIVE GptWalk(_, _, _, _)
\* the loop of _generate_gpt_partitions; count = i - 1
GptWalk(partition_dicts, i, partitions, L) ==
    IF i > Len(partition_dicts) THEN [err |-> "", val |-> partitions, L |-> L]
    ELSE
    With(GeneratePartition(IF Has(partition_dicts[i].name)
                           THEN Val(partition_dicts[i].name)
                           ELSE "p" \o ToString(i - 1),
                           partition_dicts[i], L), LAMBDA g :
    IF g.err # "" THEN RaiseL(g.err, g.L)
    ELSE GptWalk(partition_dicts, i + 1, Append(partitions, g.val), g.L))

GenerateGptPartitions(partition_dicts, L) == GptWalk(partition_dicts, 1, <<>>, L)

GeneratePartitionsFilled(table_type, filled, L) ==
    IF table_type = "msdos" THEN GenerateMbrPartitions(filled, L)
    ELSE IF table_type = "gpt" THEN GenerateGptPartitions(filled, L)
    ELSE RaiseL("GeneratorError", L)

GeneratePartitions(table_type, partition_dicts, L) ==
    GeneratePartitionsFilled(
        table_type,
        [i \in 1..Len(partition_dicts) |-> FillPartitionDefaults(partition_dicts[i])],
        L)

\* _partition_table_defaults
DefaultPartitionStart == 1048576
DefaultAlignment == 1048576

GeneratePartitionTableModel(partition_table_dict, L) ==
    IF ~Has(partition_table_dict.label) \/ ~Has(partition_table_dict.disk)
       \/ ~Has(partition_table_dict.partitions)
    THEN RaiseL("KeyError", L)
    ELSE
    With([cls |-> "PartitionTableModel",
          table_type |-> Val(partition_table_dict.label),
          disk |-> Val(partition_table_dict.disk),
          partition_start |-> IF Has(partition_table_dict.partition_start)
                              THEN Val(partition_table_dict.partition_start)
                              ELSE DefaultPartitionStart,
          alignment |-> IF Has(partition_table_dict.alignment)
                        THEN Val(partition_table_dict.alignment)
                        ELSE DefaultAlignment,
          partitions |-> <<>>], LAMBDA pm :
    IF Len(Val(partition_table_dict.partitions)) = 0
    THEN [err |-> "", val |-> pm, L |-> L]
    ELSE
    With(GeneratePartitions(Val(partition_table_dict.label),
                            Val(partition_table_dict.partitions), L), LAMBDA g :
    IF g.err # "" THEN RaiseL(g.err, g.L)
    ELSE [err |-> "", val |-> [pm EXCEPT !.partitions = g.val], L |-> g.L]))

\* the sort key of line 304: (s.get('mount_point', '')).count('/')
LvSortKey(lv) == Count(IF Has(lv.mount_point) THEN Val(lv.mount_point) ELSE <<>>, "/")

\* an ascending list with x put before the first element of the same key
InsertByKey_BeforeEqual(sorted, x) ==
    With(Cardinality({i \in 1..Len(sorted) : LvSortKey(sorted[i]) < LvSortKey(x)}),
         LAMBDA n :
    SubSeq(sorted, 1, n) \o <<x>> \o SubSeq(sorted, n + 1, Len(sorted)))

\* the place of x in an ascending list: after every element whose key is not greater
InsertByKey(sorted, x) ==
    With(Cardinality({i \in 1..Len(sorted) : LvSortKey(sorted[i]) <= LvSortKey(x)}),
         LAMBDA n :
    SubSeq(sorted, 1, n) \o <<x>> \o SubSeq(sorted, n + 1, Len(sorted)))

RECURSIVE SortLvs(_)
\* list.sort(key=...): ascending by key and stable
SortLvs(lv_dicts) ==
    IF Len(lv_dicts) = 0 THEN <<>>
    ELSE InsertByKey(SortLvs(SubSeq(lv_dicts, 1, Len(lv_dicts) - 1)),
                     lv_dicts[Len(lv_dicts)])

\* One iteration of the loop of lines 307-321
GenerateLogicalVolume(lv) ==
    With(IF Has(lv.file_system) THEN GenerateFileSystem(Val(lv.file_system))
         ELSE Ok(Absent), LAMBDA fs :
    IF fs.err # "" THEN Raise(fs.err)
    ELSE
    With(IF Has(lv.file_system) THEN Some(fs.val) ELSE Absent, LAMBDA fs_object :
    With(FsckPass(fs_object, lv, lv.mount_point), LAMBDA fsck :
    IF fsck.err # "" THEN Raise(fsck.err)
    ELSE IF ~Has(lv.name) \/ ~Has(lv.size) THEN Raise("KeyError")
    ELSE
    With(GenerateSize(Val(lv.size)), LAMBDA sz :
    IF sz.err # "" THEN Raise(sz.err)
    ELSE Ok([cls |-> "LogicalVolume",
             name |-> Val(lv.name),
             size_or_percent |-> sz.val,
             file_system |-> fs_object,
             mount_point |-> lv.mount_point,
             fsck_option |-> fsck.val])))))

RECURSIVE GenerateLogicalVolumes(_, _, _)
GenerateLogicalVolumes(lv_dicts, i, lvs) ==
    IF i > Len(lv_dicts) THEN Ok(lvs)
    ELSE
    With(GenerateLogicalVolume(lv_dicts[i]), LAMBDA g :
    IF g.err # "" THEN Raise(g.err)
    ELSE GenerateLogicalVolumes(lv_dicts, i + 1, Append(lvs, g.val)))

RECURSIVE ResolvePvs(_, _, _, _)
\* the loop of lines 297-301
ResolvePvs(physical_volumes, i, pvs, linker) ==
    IF i > Len(physical_volumes) THEN Ok(pvs)
    ELSE IF physical_volumes[i] \notin DOMAIN linker THEN Raise("GeneratorError")
    ELSE ResolvePvs(physical_volumes, i + 1,
                    Append(pvs, [cls |-> "PhysicalVolume",
                                 reference |-> linker[physical_volumes[i]]]),
                    linker)

\* the body of the loop over volume groups, lines 293-323
GenerateVolumeGroupModel(vg, linker) ==
    IF ~Has(vg.physical_volumes) \/ Len(Val(vg.physical_volumes)) = 0
    THEN Raise("GeneratorError")
    ELSE
    With(ResolvePvs(Val(vg.physical_volumes), 1, <<>>, linker), LAMBDA pvs :
    IF pvs.err # "" THEN Raise(pvs.err)
    \* lv_dicts.sort on None
    ELSE IF ~Has(vg.logical_volumes) THEN Raise("AttributeError")
    ELSE
    With(GenerateLogicalVolumes(SortLvs(Val(vg.logical_volumes)), 1, <<>>), LAMBDA lvs :
    IF lvs.err # "" THEN Raise(lvs.err)
    ELSE Ok([cls |-> "VolumeGroupModel",
             name |-> vg.name,
             physical_volumes |-> pvs.val,
             logical_volumes |-> lvs.val])))

RECURSIVE VolumeGroupWalk(_, _, _, _)
VolumeGroupWalk(volume_group_dict, i, vgs, linker) ==
    IF i > Len(volume_group_dict) THEN Ok(vgs)
    ELSE
    With(GenerateVolumeGroupModel(volume_group_dict[i], linker), LAMBDA g :
    IF g.err # "" THEN Raise(g.err)
    ELSE VolumeGroupWalk(volume_group_dict, i + 1, Append(vgs, g.val), linker))

GenerateVolumeGroupModels(volume_group_dict, L) ==
    IF DOMAIN L.pv = {} THEN Raise("GeneratorError")
    ELSE VolumeGroupWalk(volume_group_dict, 1, <<>>, L.pv)

\* the MDRaid object of one entry of raid_config, its members looked up in
\* the partition linker
MDRaid(raid, ff, linker) ==
    [cls |-> "MDRaid",
     devname |-> raid.name,
     level |-> raid.level,
     members |-> [j \in 1..Len(raid.partitions) |-> linker[raid.partitions[j]]],
     file_system |-> ff.file_system,
     fsck_option |-> ff.fsck_option,
     pv_name |-> raid.pv,
     mount_point |-> raid.mount_point]

RECURSIVE RaidWalk(_, _, _, _)
\* the loop of generate_software_raid
RaidWalk(raid_config, i, raid_objects, L) ==
    IF i > Len(raid_config) THEN [err |-> "", val |-> raid_objects, L |-> L]
    ELSE
    With(FsAndFsck(raid_config[i]), LAMBDA ff :
    IF ff.err # "" THEN RaiseL(ff.err, L)
    ELSE IF \E j \in 1..Len(raid_config[i].partitions) :
                raid_config[i].partitions[j] \notin DOMAIN L.part
    THEN RaiseL("KeyError", L)
    ELSE
    With(MDRaid(raid_config[i], ff.val, L.part), LAMBDA mdraid :
    RaidWalk(raid_config, i + 1, Append(raid_objects, mdraid),
             [pv |-> IF Has(mdraid.pv_name) /\ Val(mdraid.pv_name) # ""
                     THEN DictPut(L.pv, Val(mdraid.pv_name), mdraid)
                     ELSE L.pv,
              part |-> L.part])))

GenerateSoftwareRaid(raid_config, L) == RaidWalk(raid_config, 1, <<>>, L)

----------------------------------------------------------------------------
(* structure/size.py: Size.  A byte count is kept in two limbs,            *)
(* bytes = hi * 2^20 + lo with 0 <= lo < 2^20, so that counts around 2 TiB  *)
(* are exact.                                                              *)

Limb == 1024 * 1024

Bytes(hi, lo) == [hi |-> hi, lo |-> lo]

SizeGE(a, b) == a.hi > b.hi \/ (a.hi = b.hi /\ a.lo >= b.lo)

\* Size.__add__
SizeAdd(a, b) ==
    [hi |-> a.hi + b.hi + ((a.lo + b.lo) \div Limb), lo |-> (a.lo + b.lo) % Limb]

\* n * unit for a small n
SizeTimes(n, unit) ==
    [hi |-> n * unit.hi + ((n * unit.lo) \div Limb), lo |-> (n * unit.lo) % Limb]

\* Size.tebibyte = kibibyte ** 4
Tebibyte == Bytes(1024 * 1024, 0)

\* Size.symbols, the binary units and the byte and sector
SizeSymbols ==
    [suffix \in {<<"b">>, <<"s">>, <<"K", "i", "B">>, <<"M", "i", "B">>,
                 <<"G", "i", "B">>, <<"T", "i", "B">>} |->
        CASE suffix = <<"b">> -> Bytes(0, 1)
          [] suffix = <<"s">> -> Bytes(0, 512)
          [] suffix = <<"K", "i", "B">> -> Bytes(0, 1024)
          [] suffix = <<"M", "i", "B">> -> Bytes(1, 0)
          [] suffix = <<"G", "i", "B">> -> Bytes(1024, 0)
          [] suffix = <<"T", "i", "B">> -> Tebibyte]

\* Size._convert for an int (a limb pair already) and for a string of digits
\* followed by nothing or by one of the units above; any other string is
\* rejected (decimal fractions and the decimal units are not modelled)
SizeConvert(value) ==
    IF value.t = "int" THEN Ok(value.v)
    ELSE IF IsDigit(value.v)
    THEN Ok(Bytes(IntOf(value.v) \div Limb, IntOf(value.v) % Limb))
    ELSE
        LET n == Cardinality({i \in 1..Len(value.v) :
                                 \A j \in 1..i : IsDigitChar(value.v[j])})
            val == SubSeq(value.v, 1, n)
            suffix == SubSeq(value.v, n + 1, Len(value.v))
        IN  IF n = 0 \/ suffix \notin DOMAIN SizeSymbols
            THEN Raise("SizeObjectValError")
            ELSE Ok(SizeTimes(IntOf(val), SizeSymbols[suffix]))

\* strictly more than two tebibytes
Over2t_Above(size) == ~SizeGE(SizeTimes(2, Tebibyte), size)

\* Size.over_2t
Over2t(size) == SizeGE(size, SizeTimes(2, Tebibyte))

----------------------------------------------------------------------------
(* generators/layout.py: disk labels and the top level *)

\* Layout(...) as generate_layout_stub builds it: the disks found on the
\* host, none allocated yet, nothing attached
LayoutStub(h) ==
    [disks |-> h.disks, unallocated |-> h.disks,
     partition_tables |-> <<>>, software_raid |-> <<>>, volume_groups |-> <<>>]

\* Layout.find_device_by_size: the first unallocated disk of at least `size`
FindDeviceBySize(layout, size) ==
    LET fit == {i \in 1..Len(layout.unallocated) :
                   SizeGE(layout.unallocated[i].size, size)}
    IN  IF fit = {} THEN Absent
        ELSE Some(layout.unallocated[CHOOSE i \in fit : \A j \in fit : i <= j])

\* Layout.find_device_by_ref: the disk of that device name
FindDeviceByRef(layout, ref) ==
    LET hit == {i \in 1..Len(layout.disks) : layout.disks[i].devname = ref}
    IN  IF hit = {} THEN Absent
        ELSE Some(layout.disks[CHOOSE i \in hit : \A j \in hit : i <= j])

\* Layout.add_partition_table_from_model
AddPartitionTableFromModel(layout, ptm) ==
    [layout EXCEPT !.partition_tables = Append(@, ptm)]

\* Layout.add_software_raid, for each generated device
AddSoftwareRaid(layout, raid_objects) ==
    [layout EXCEPT !.software_raid = @ \o raid_objects]

\* Layout.add_volume_group_from_model, for each generated group
AddVolumeGroupsFromModel(layout, vg_objects) ==
    [layout EXCEPT !.volume_groups = @ \o vg_objects]

BiosBootPartition ==
    [name |-> Some("BIOS boot partition"), mbr_type |-> Absent,
     size |-> Some(PyStr(Str1MiB)), flags |-> Some({"bios_grub"}),
     file_system |-> Absent, mount_point |-> Absent, fsck_option |-> Absent]

EfiBootPartition ==
    [name |-> Some("EFI"), mbr_type |-> Absent,
     size |-> Some(PyStr(<<"2", "5", "3", "M", "i", "B">>)), flags |-> Some({"boot"}),
     file_system |-> Some([type |-> Some("efi"), require_fsck |-> FALSE]),
     mount_point |-> Some(<<"/", "b", "o", "o", "t", "/", "e", "f", "i">>),
     fsck_option |-> Absent]

AddBiosBootPartition(partition_table) ==
    IF ~Has(partition_table.partitions) THEN Raise("KeyError")
    ELSE
        LET partitions == Val(partition_table.partitions) IN
        IF Len(partitions) > 0
           /\ "bios_grub" \notin (IF Has(partitions[1].flags)
                                  THEN Val(partitions[1].flags) ELSE {})
        THEN Ok([partition_table EXCEPT
                    !.partitions = Some(<<BiosBootPartition>> \o partitions)])
        ELSE Ok(partition_table)

\* looks at the first declared partition only, as add_bios_boot_partition does
AddEfiBootPartition_FirstOnly(partition_table) ==
    LET partitions == IF Has(partition_table.partitions)
                      THEN Val(partition_table.partitions) ELSE <<>>
    IN  IF Len(partitions) > 0
           /\ Has(partitions[1].file_system)
           /\ Val(partitions[1].file_system).type = Some("efi")
        THEN partition_table
        ELSE [partition_table EXCEPT
                 !.partitions = Some(<<EfiBootPartition>> \o partitions)]

AddEfiBootPartition(partition_table) ==
    LET partitions == IF Has(partition_table.partitions)
                      THEN Val(partition_table.partitions) ELSE <<>>
    IN  IF \E i \in 1..Len(partitions) :
              /\ Has(partitions[i].file_system)
              /\ Val(partitions[i].file_system).type = Some("efi")
        THEN partition_table
        ELSE [partition_table EXCEPT
                 !.partitions = Some(<<EfiBootPartition>> \o partitions)]


RECURSIVE FixedSizeSum(_, _, _)
\* the loop of lines 392-396: the sum of the sizes that are no percent strings
FixedSizeSum(partitions, i, size) ==
    IF i > Len(partitions) THEN Ok(size)
    ELSE IF ~Has(partitions[i].size) THEN Raise("KeyError")
    \* '%' not in <int>
    ELSE IF Val(partitions[i].size).t # "str" THEN Raise("TypeError")
    ELSE IF Find(Val(partitions[i].size).v, "%") # -1
    THEN FixedSizeSum(partitions, i + 1, size)
    ELSE
    With(SizeConvert(Val(partitions[i].size)), LAMBDA c :
    IF c.err # "" THEN Raise(c.err)
    ELSE FixedSizeSum(partitions, i + 1, SizeAdd(size, c.val)))

\* lines 388-399: the disk a partition table is bound to, None when the
\* lookup finds none
ResolveDisk(partition_table, layout) ==
    IF ~Has(partition_table.disk) THEN Raise("KeyError")
    ELSE IF Val(partition_table.disk) = "first"
    THEN (IF Len(layout.unallocated) = 0 THEN Raise("IndexError")
          ELSE Ok(Some(layout.unallocated[1])))
    ELSE IF Val(partition_table.disk) = "any"
    THEN
        \* for partition in None
        IF ~Has(partition_table.partitions) THEN Raise("TypeError")
        ELSE
        With(FixedSizeSum(Val(partition_table.partitions), 1, Bytes(0, 0)), LAMBDA size :
        IF size.err # "" THEN Raise(size.err)
        ELSE Ok(FindDeviceBySize(layout, size.val)))
    ELSE Ok(FindDeviceByRef(layout, Val(partition_table.disk)))

\* layout.disks.keys().index(disk.devname) == 0
IsFirstDisk(layout, disk) == layout.disks[1].devname = disk.devname

\* partition_table['label'] = label
SetLabel(partition_table, label) == [partition_table EXCEPT !.label = Some(label)]

\* add_bios_boot_partition(partition_table), then line 423 with label 'gpt'
GptWithBiosBoot(partition_table) ==
    With(AddBiosBootPartition(partition_table), LAMBDA b :
    IF b.err # "" THEN Raise(b.err) ELSE Ok(SetLabel(b.val, "gpt")))

\* lines 401-423 for the disk the table is bound to
LabelFor(partition_table, layout, disk, efi, no_bios_boot_partition) ==
    IF ~efi
    THEN
        IF Over2t(disk.size)
        THEN
            IF ~no_bios_boot_partition /\ IsFirstDisk(layout, disk)
            THEN GptWithBiosBoot(partition_table)
            ELSE Ok(SetLabel(partition_table, "gpt"))
        ELSE IF partition_table.label = Some("gpt")
        THEN GptWithBiosBoot(partition_table)
        ELSE Ok(SetLabel(partition_table, "msdos"))
    ELSE
        IF IsFirstDisk(layout, disk)
        THEN Ok(SetLabel(AddEfiBootPartition(partition_table), "gpt"))
        ELSE Ok(SetLabel(partition_table, "gpt"))

\* The body of the loop of set_disk_labels: the partition table dict as the
\* iteration leaves it
SetDiskLabel(partition_table, layout, efi, no_bios_boot_partition) ==
    With(ResolveDisk(partition_table, layout), LAMBDA d :
    IF d.err # "" THEN Raise(d.err)
    \* disk.size on None
    ELSE IF ~Has(d.val) THEN Raise("AttributeError")
    ELSE LabelFor(partition_table, layout, Val(d.val), efi, no_bios_boot_partition))

RECURSIVE SetDiskLabelsFrom(_, _, _, _, _)
\* val holds the partition table dicts as the loop leaves them, the tables of
\* the iterations before a failed one changed in place
SetDiskLabelsFrom(partition_tables, i, layout, efi, no_bios_boot_partition) ==
    IF i > Len(partition_tables) THEN Ok(partition_tables)
    ELSE
    With(SetDiskLabel(partition_tables[i], layout, efi, no_bios_boot_partition), LAMBDA r :
    IF r.err # "" THEN [err |-> r.err, val |-> partition_tables]
    ELSE SetDiskLabelsFrom([partition_tables EXCEPT ![i] = r.val], i + 1,
                           layout, efi, no_bios_boot_partition))

\* set_disk_labels: the partition tables of layout_config as it leaves them
SetDiskLabels(layout, layout_config, h) ==
    \* for partition_table in None
    IF ~Has(layout_config.partition_tables) THEN Raise("TypeError")
    ELSE SetDiskLabelsFrom(Val(layout_config.partition_tables), 1, layout, h.efi,
                           layout_config.no_bios_boot_partition)

RECURSIVE PartitionTableWalk(_, _, _, _)
\* the loop of lines 476-478; val is the layout as the loop leaves it
PartitionTableWalk(partition_tables, i, layout, L) ==
    IF i > Len(partition_tables) THEN [err |-> "", val |-> layout, L |-> L]
    ELSE
    With(GeneratePartitionTableModel(partition_tables[i], L), LAMBDA g :
    IF g.err # "" THEN [err |-> g.err, val |-> layout, L |-> g.L]
    ELSE PartitionTableWalk(partition_tables, i + 1,
                            AddPartitionTableFromModel(layout, g.val), g.L))

\* lines 480-484: the RAID devices of the configuration, none when it has no
\* software_raid section
SoftwareRaidOf(layout_config, L) ==
    IF Has(layout_config.software_raid) /\ Len(Val(layout_config.software_raid)) > 0
    THEN GenerateSoftwareRaid(Val(layout_config.software_raid), L)
    ELSE [err |-> "", val |-> <<>>, L |-> L]

\* lines 486-491: the volume groups of the configuration
VolumeGroupsOf(layout_config, L) ==
    IF Has(layout_config.volume_groups) /\ Len(Val(layout_config.volume_groups)) > 0
    THEN GenerateVolumeGroupModels(Val(layout_config.volume_groups), L)
    ELSE Ok(<<>>)

\* layout_from_config on a host h with the linkers L: the error raised ("" on
\* return), the Layout object as the call leaves it, and the linkers it leaves
LayoutFromConfig(layout_config, h, L) ==
    With(LayoutStub(h), LAMBDA layout :
    IF ~Has(layout_config.partition_tables)
       \/ Len(Val(layout_config.partition_tables)) = 0
    THEN [err |-> "GeneratorError", val |-> layout, L |-> L]
    ELSE
    With(SetDiskLabels(layout, layout_config, h), LAMBDA labelled :
    IF labelled.err # "" THEN [err |-> labelled.err, val |-> layout, L |-> L]
    ELSE
    With(PartitionTableWalk(labelled.val, 1, layout, L), LAMBDA pt :
    IF pt.err # "" THEN pt
    ELSE
    With(SoftwareRaidOf(layout_config, pt.L), LAMBDA raid :
    IF raid.err # "" THEN [err |-> raid.err, val |-> pt.val, L |-> raid.L]
    ELSE
    With(VolumeGroupsOf(layout_config, raid.L), LAMBDA vgs :
    IF vgs.err # ""
    THEN [err |-> vgs.err, val |-> AddSoftwareRaid(pt.val, raid.val), L |-> raid.L]
    ELSE [err |-> "",
          val |-> AddVolumeGroupsFromModel(AddSoftwareRaid(pt.val, raid.val), vgs.val),
          L |-> raid.L])))))

----------------------------------------------------------------------------
(* parted.py: PartedInterface.  The device is what the parted tool reports  *)
(* and changes: its label, its size in bytes and the rows of its partition   *)
(* table [number, start, end, type, name, flags], listed by number.  A       *)
(* command is a record; the tool either carries a command out or rejects it  *)
(* (run_parted then raises PartedException).                                 *)

MkpartCmd(type, start, end) == [cmd |-> "mkpart", type |-> type, start |-> start, end |-> end]
SetNameCmd(number, name) == [cmd |-> "set_name", number |-> number, name |-> name]
SetFlagCmd(number, flag) == [cmd |-> "set_flag", number |-> number, flag |-> flag]
RmCmd(number) == [cmd |-> "rm", number |-> number]

\* PartedInterface.partitions
Partitions(dev) == IF dev.label = "unknown" THEN <<>> ELSE dev.partitions

\* PartedInterface.last_partition
LastPartition(dev) ==
    IF Len(Partitions(dev)) = 0 THEN Absent
    ELSE Some(Partitions(dev)[Len(Partitions(dev))])

\* PartedInterface.extended_partition
ExtendedPartition(dev) ==
    IF dev.label # "msdos" THEN Absent
    ELSE IF \E i \in 1..Len(Partitions(dev)) : Partitions(dev)[i].type = "extended"
    THEN Some(Partitions(dev)[CHOOSE i \in 1..Len(Partitions(dev)) :
                                 /\ Partitions(dev)[i].type = "extended"
                                 /\ \A j \in 1..(i - 1) :
                                       Partitions(dev)[j].type # "extended"])
    ELSE Absent

Numbers(dev) == {dev.partitions[i].number : i \in 1..Len(dev.partitions)}

\* the number the tool gives to a new partition: 5 and up for a logical
\* partition of an msdos table, else the lowest number not in use
ToolNumber(dev, type) ==
    IF dev.label = "msdos" /\ type = "logical"
    THEN 5 + Cardinality({i \in 1..Len(dev.partitions) : dev.partitions[i].type = "logical"})
    ELSE CHOOSE n \in 1..(Len(dev.partitions) + 1) :
             n \notin Numbers(dev) /\ \A m \in 1..(n - 1) : m \in Numbers(dev)

\* whether the bytes start..end, both counted in, meet those of a row
Meets(row, start, end) == start <= row.end /\ row.start <= end

\* whether the tool has no room for the partition of a mkpart command: a
\* logical partition has to lie in the extended one and clear of the other
\* logical ones, any other partition clear of every primary and extended one
NoRoom(dev, c) ==
    IF dev.label = "msdos" /\ c.type = "logical"
    THEN \/ ~Has(ExtendedPartition(dev))
         \/ c.start < Val(ExtendedPartition(dev)).start
         \/ c.end > Val(ExtendedPartition(dev)).end
         \/ \E i \in 1..Len(dev.partitions) :
               dev.partitions[i].type = "logical" /\ Meets(dev.partitions[i], c.start, c.end)
    ELSE \E i \in 1..Len(dev.partitions) :
             dev.partitions[i].type # "logical" /\ Meets(dev.partitions[i], c.start, c.end)

\* whether the tool rejects a command: the device does not take commands, a
\* partition is to end before it starts or to lie where another one is, an
\* msdos table is asked for a type it does not have, for a fifth primary or
\* for a logical partition without an extended one, or a partition that is
\* not in the table is named or flagged
ToolRejects(dev, c) ==
    \/ ~dev.healthy
    \/ c.cmd = "mkpart" /\ c.end < c.start
    \/ c.cmd = "mkpart" /\ NoRoom(dev, c)
    \/ /\ c.cmd = "mkpart"
       /\ dev.label = "msdos"
       /\ \/ c.type \notin {"primary", "extended", "logical"}
          \/ c.type = "logical" /\ ~Has(ExtendedPartition(dev))
          \/ c.type # "logical" /\ ToolNumber(dev, c.type) > 4
    \/ c.cmd # "mkpart" /\ c.number \notin Numbers(dev)

\* the rows with `row` put at its place by number
InsertRow(rows, row) ==
    With(Cardinality({i \in 1..Len(rows) : rows[i].number < row.number}), LAMBDA n :
    SubSeq(rows, 1, n) \o <<row>> \o SubSeq(rows, n + 1, Len(rows)))

\* the rows left when the tool removes partition `number`: an extended
\* partition goes with the logical partitions it holds, and the logical
\* partitions after a removed one move down by one
RemoveRow(rows, number) ==
    With(CHOOSE i \in 1..Len(rows) : rows[i].number = number, LAMBDA at :
    With(SelectSeq(rows, LAMBDA row :
             /\ row.number # number
             /\ ~(rows[at].type = "extended" /\ row.type = "logical")), LAMBDA kept :
    [i \in 1..Len(kept) |->
        IF rows[at].type = "logical" /\ kept[i].type = "logical" /\ kept[i].number > number
        THEN [kept[i] EXCEPT !.number = @ - 1]
        ELSE kept[i]]))

\* the device after the tool carried out command c
ToolApply(dev, c) ==
    IF c.cmd = "rm"
    THEN [dev EXCEPT !.partitions = RemoveRow(@, c.number)]
    ELSE IF c.cmd = "mkpart"
    THEN [dev EXCEPT !.partitions =
             InsertRow(@, [number |-> ToolNumber(dev, c.type),
                           start |-> c.start, end |-> c.end,
                           type |-> IF dev.label = "msdos" THEN c.type ELSE "",
                           name |-> IF dev.label = "gpt" THEN c.type ELSE "",
                           flags |-> {}])]
    ELSE [dev EXCEPT !.partitions =
             [i \in 1..Len(@) |->
                 IF @[i].number # c.number THEN @[i]
                 ELSE IF c.cmd = "set_name" THEN [@[i] EXCEPT !.name = c.name]
                 ELSE [@[i] EXCEPT !.flags = @ \cup {c.flag}]]]

RECURSIVE RunParted(_, _, _)
\* run_parted for the commands cmds[i..] in order, stopping at the first the
\* tool rejects: the device after, the commands issued, the error raised
RunParted(dev, cmds, i) ==
    IF i > Len(cmds) THEN [err |-> "", device |-> dev, cmds |-> cmds]
    ELSE IF ToolRejects(dev, cmds[i])
    THEN [err |-> "PartedException", device |-> dev, cmds |-> SubSeq(cmds, 1, i)]
    ELSE RunParted(ToolApply(dev, cmds[i]), cmds, i + 1)

\* the smallest multiple of the alignment at or above `end`
AlignedStart_AtOrAbove(end, alignment) ==
    IF end % alignment = 0 THEN end ELSE end + (alignment - (end % alignment))

\* lines 218-219: aligned
AlignedStart(end, alignment) == end + (alignment - (end % alignment))

\* line 225 without the equal case
TooBig_Above(end, table_size) == end > table_size

\* line 225: the partition is too big
TooBig(end, table_size) == end >= table_size

\* lines 228-232: a logical partition is asked of an msdos table that has no
\* extended partition
FirstLogical(dev, type_or_name) ==
    type_or_name = "logical" /\ dev.label = "msdos" /\ ~Has(ExtendedPartition(dev))

\* lines 228-244: the commands create_partition issues once the size check
\* passed, with `start`, `end` and `partition_number` as line 223 leaves them
CreateCommands(dev, pi, type_or_name, start, end, partition_number, boot_flag, lvm_flag) ==
    (IF FirstLogical(dev, type_or_name)
     THEN <<MkpartCmd("extended", start, dev.size - 1),
            MkpartCmd(type_or_name, start + pi.partition_start, end)>>
     ELSE <<MkpartCmd(type_or_name, start, end)>>)
    \o (IF dev.label = "gpt"
        THEN <<SetNameCmd(partition_number, type_or_name)>> ELSE <<>>)
    \o (IF boot_flag THEN <<SetFlagCmd(partition_number, "boot")>> ELSE <<>>)
    \o (IF lvm_flag THEN <<SetFlagCmd(partition_number, "lvm")>> ELSE <<>>)

\* create_partition making the extended partition of a first logical
\* partition before the size check
CreateAt_ExtendedFirst(dev, pi, type_or_name, part_size, boot_flag, lvm_flag, last_partition, start, partition_number) ==
    IF TooBig(start + part_size, dev.size)
    THEN
    With(RunParted(dev, IF FirstLogical(dev, type_or_name)
                        THEN <<MkpartCmd("extended", start, dev.size - 1)>>
                        ELSE <<>>, 1), LAMBDA r :
    [err |-> IF r.err = "" THEN "PartedInterfaceException" ELSE r.err,
     val |-> Absent, device |-> r.device,
     cmds |-> r.cmds, last_partition |-> last_partition,
     start |-> start, end |-> start + part_size])
    ELSE
    With(IF FirstLogical(dev, type_or_name) THEN 5 ELSE partition_number, LAMBDA number :
    With(RunParted(dev,
                   CreateCommands(dev, pi, type_or_name, start, start + part_size,
                                  number, boot_flag, lvm_flag), 1), LAMBDA r :
    [err |-> r.err, val |-> IF r.err = "" THEN Some(number) ELSE Absent,
     device |-> r.device, cmds |-> r.cmds, last_partition |-> last_partition,
     start |-> start, end |-> start + part_size]))

\* lines 223-246 for the start and number of lines 211-221
CreateAt(dev, pi, type_or_name, part_size, boot_flag, lvm_flag, last_partition, start, partition_number) ==
    IF TooBig(start + part_size, dev.size)
    THEN [err |-> "PartedInterfaceException", val |-> Absent, device |-> dev,
          cmds |-> <<>>, last_partition |-> last_partition,
          start |-> start, end |-> start + part_size]
    ELSE
    With(IF FirstLogical(dev, type_or_name) THEN 5 ELSE partition_number, LAMBDA number :
    With(RunParted(dev,
                   CreateCommands(dev, pi, type_or_name, start, start + part_size,
                                  number, boot_flag, lvm_flag), 1), LAMBDA r :
    [err |-> r.err, val |-> IF r.err = "" THEN Some(number) ELSE Absent,
     device |-> r.device, cmds |-> r.cmds, last_partition |-> last_partition,
     start |-> start, end |-> start + part_size]))

\* PartedInterface.create_partition on the device dev with the fields pi: the
\* error raised ("" on return), the number returned, the device after, the
\* commands issued, and the locals last_partition, start (before a first
\* logical partition shifts it) and end
CreatePartition(dev, pi, type_or_name, part_size, boot_flag, lvm_flag) ==
    With(LastPartition(dev), LAMBDA last_partition :
    IF Has(last_partition)
    THEN CreateAt(dev, pi, type_or_name, part_size, boot_flag, lvm_flag, last_partition,
                  AlignedStart(Val(last_partition).end, pi.alignment),
                  Val(last_partition).number + 1)
    ELSE CreateAt(dev, pi, type_or_name, part_size, boot_flag, lvm_flag, last_partition,
                  pi.partition_start, 1))


\* PartedInterface.remove_partition: the device after and the error raised
RemovePartition(dev, partition_number) ==
    IF ToolRejects(dev, RmCmd(partition_number))
    THEN [err |-> "PartedException", device |-> dev]
    ELSE [err |-> "", device |-> ToolApply(dev, RmCmd(partition_number))]

\* wipe_table listing the partitions before it removes the extended one
WipeListing_Before(found, dev) == Partitions(found)

\* wipe_table, line 179: self.partitions of the device as the removal of the
\* extended partition of the table found left it
WipeListing(found, dev) == Partitions(dev)

----------------------------------------------------------------------------
(* post/targets/linux/linux_target.py: LinuxTarget *)

\* a target root nothing was done to
NoTarget == [groups |-> {}, users |-> {}, writes |-> <<>>, commands |-> <<>>]

\* deployment.write(self.join_root(path), data): the file is created or
\* overwritten
Write(t, path, data) == [t EXCEPT !.writes = Append(@, [path |-> path, data |-> data])]

\* util.group_exists(group, self.root), util.user_exists(user, self.root):
\* a look into the target's databases
GroupExists(t, group) == group \in t.groups
UserExists(t, user) == user \in t.users

\* self.chroot(command) for the attempt `a` of authentication(); ok tells
\* whether the command succeeded: a successful groupadd or useradd adds the
\* entry, a failed command changes nothing and chroot returns all the same.
\* Each entry of commands also keeps the databases as the command found them.
Chroot(t, command, a, ok) ==
    [t EXCEPT
        !.commands = Append(@, [command |-> command, ok |-> ok,
                                section |-> a.section, key |-> a.key,
                                groups |-> t.groups, users |-> t.users]),
        !.groups = IF ok /\ command.cmd = "groupadd" THEN @ \cup {command.group} ELSE @,
        !.users = IF ok /\ command.cmd = "useradd" THEN @ \cup {command.user} ELSE @]

\* set_language
SetLanguage(t, language) ==
    Write(t, "/etc/locale.conf", <<"LANG=", language, "\nLC_MESSAGES=C\n">>)

\* localization(): the timezone is logged only
Localization(press_configuration, t) ==
    IF Has(press_configuration.localization)
       /\ Has(Val(press_configuration.localization).language)
    THEN SetLanguage(t, Val(Val(press_configuration.localization).language))
    ELSE t

\* util.format_groupadd(group, gid, system)
FormatGroupadd(group, gid, system) ==
    [cmd |-> "groupadd", group |-> group, gid |-> gid, system |-> system]

\* __groupadd without the look into the group database
Groupadd_Unchecked(t, a, ok) ==
    Chroot(t, FormatGroupadd(a.group, a.gid, a.system), a, ok)

\* __groupadd(group, gid, system)
Groupadd(t, a, ok) ==
    IF ~GroupExists(t, a.group)
    THEN Chroot(t, FormatGroupadd(a.group, a.gid, a.system), a, ok)
    ELSE t

\* util.format_useradd(user, uid, group, groups, home, shell, create_home, system)
FormatUseradd(user, _u) ==
    [cmd |-> "useradd", user |-> user, uid |-> _u.uid, group |-> _u.group,
     groups |-> _u.groups, home |-> Absent, shell |-> Absent,
     create_home |-> TRUE, system |-> FALSE]

\* lines 71-82 of authentication()
Useradd(t, a, ok) ==
    IF ~UserExists(t, a.user) THEN Chroot(t, FormatUseradd(a.user, a._u), a, ok) ELSE t

\* util.format_change_password(user, password, is_encrypted)
FormatChangePassword(user, password) ==
    [cmd |-> "chpasswd", user |-> user, password |-> password, is_encrypted |-> TRUE]

\* lines 86-93 of authentication()
SetPassword(t, a, ok) ==
    IF Has(a.password)
    THEN Chroot(t, FormatChangePassword(a.user, Val(a.password)), a, ok)
    ELSE t

\* a call __groupadd(group, gid, system) made while `key` of `section` is
\* worked on
GroupaddAttempt(section, key, group, gid, system) ==
    [kind |-> "groupadd", section |-> section, key |-> key,
     group |-> group, gid |-> gid, system |-> system]

\* an exception the loop raises
RaiseAttempt(section, key, err) ==
    [kind |-> "raise", section |-> section, key |-> key, err |-> err]

\* the body of `for user in users` for one user: the calls it makes, in order
UserAttempts(user, u) ==
    \* 'group' in None, None.get
    IF ~Has(u)
    THEN <<RaiseAttempt("users", user,
                        IF user # "root" THEN "TypeError" ELSE "AttributeError")>>
    ELSE
        (IF user # "root"
         THEN (IF Has(Val(u).group)
               THEN <<GroupaddAttempt("users", user, Val(Val(u).group), Val(u).gid, FALSE)>>
               ELSE <<>>)
              \o (IF Has(Val(u).groups)
                  THEN [i \in 1..Len(Val(Val(u).groups)) |->
                           GroupaddAttempt("users", user, Val(Val(u).groups)[i], Absent, FALSE)]
                  ELSE <<>>)
              \o <<[kind |-> "useradd", section |-> "users", key |-> user,
                    user |-> user, _u |-> Val(u)]>>
         ELSE <<>>)
        \o <<[kind |-> "password", section |-> "users", key |-> user,
              user |-> user, password |-> Val(u).password]>>

RECURSIVE UsersAttempts(_, _)
\* for user in users, in the order the dict gives
UsersAttempts(users, i) ==
    IF i > Len(users) THEN <<>>
    ELSE UserAttempts(users[i].key, users[i].value) \o UsersAttempts(users, i + 1)

\* lines 97-101: _g = groups[group] or dict()
GroupsAttempts(groups) ==
    [i \in 1..Len(groups) |->
        GroupaddAttempt("groups", groups[i].key, groups[i].key,
                        IF Has(groups[i].value) THEN Val(groups[i].value).gid ELSE Absent,
                        IF Has(groups[i].value) THEN Val(groups[i].value).system ELSE Absent)]

\* `not configuration`: no auth section, or an empty one
NoAuthentication(press_configuration) ==
    \/ ~Has(press_configuration.auth)
    \/ /\ ~Has(Val(press_configuration.auth).users)
       /\ ~Has(Val(press_configuration.auth).groups)

\* authentication(): the calls it makes, in order, up to the first that raises
AuthAttempts(press_configuration) ==
    IF NoAuthentication(press_configuration) THEN <<>>
    \* `for user in users` with users None
    ELSE IF ~Has(Val(press_configuration.auth).users)
    THEN <<RaiseAttempt("users", "", "TypeError")>>
    ELSE UsersAttempts(Val(Val(press_configuration.auth).users), 1)
         \o (IF Has(Val(press_configuration.auth).groups)
             THEN GroupsAttempts(Val(Val(press_configuration.auth).groups))
             ELSE <<>>)

\* set_hostname()
SetHostname(press_configuration, t) ==
    IF Has(press_configuration.network)
       /\ Has(Val(press_configuration.network).hostname)
    THEN Write(t, "/etc/hostname", <<Val(Val(press_configuration.network).hostname), "\n">>)
    ELSE t

----------------------------------------------------------------------------
(* plugins/server_management/omsa.py *)

\* a step the plugin performs on its target, kept in target.commands
Step(t, s) == [t EXCEPT !.commands = Append(@, s)]

\* target.install_package(name): a truthy result signals failure
InstallPackage(t, name) ==
    [t |-> Step(t, [step |-> "install_package", packages |-> <<name>>,
                    result |-> name \in t.failing]),
     result |-> name \in t.failing]

\* target.install_packages(names)
InstallPackages(t, names) ==
    [t |-> Step(t, [step |-> "install_packages", packages |-> names,
                    result |-> \E i \in 1..Len(names) : names[i] \in t.failing]),
     result |-> \E i \in 1..Len(names) : names[i] \in t.failing]

\* what run() leaves: the target, the exception raised ("" on return) and the
\* packages its message names
PluginReturn(t) == [t |-> t, err |-> "", val |-> <<>>]
PluginRaise(t, packages) == [t |-> t, err |-> "ServerManagementException", val |-> packages]

\* OMSADebian8.dist, OMSAUbuntu1404.dist, OMSAUbuntu1604.dist, OMSAUbuntu1804.dist
Dist(extends) ==
    CASE extends = "debian_8" -> "jessie"
      [] extends = "ubuntu_1404" -> "trusty"
      [] extends = "ubuntu_1604" -> "xenial"
      [] extends = "ubuntu_1804" -> "xenial"

\* OMSADebian.write_sources
WriteSources(t, dist) ==
    Write(t, "/etc/apt/sources.list.d/dell-omsa.list", <<"deb", dist, "openmanage">>)

\* OMSADebian.import_key
ImportKey(t) ==
    Step(Write(t, "dell_key.1285491434D8786F", <<"key_data">>),
         [step |-> "chroot", command |-> "apt-key add"])

\* OMSADebian.install_openmanage
DebianInstallOpenmanage(t) ==
    With(InstallPackage(t, "srvadmin-all"), LAMBDA r :
    IF r.result THEN PluginRaise(r.t, <<"srvadmin-all">>) ELSE PluginReturn(r.t))

\* OMSADebian.install_openipmi
InstallOpenipmi(t) ==
    With(InstallPackage(t, "openipmi"), LAMBDA r :
    IF r.result THEN PluginRaise(r.t, <<"openipmi">>) ELSE PluginReturn(r.t))

\* OMSADebian.run
DebianRun(t, extends) ==
    With(InstallOpenipmi(Step(ImportKey(WriteSources(t, Dist(extends))),
                              [step |-> "apt_update"])), LAMBDA r :
    IF r.err # "" THEN r ELSE DebianInstallOpenmanage(r.t))

\* OMSARedHat.__init__: gen12_chassis
Gen12Chassis == <<"R720", "R820">>

RECURSIVE OpenManagePackagesFrom(_, _, _)
\* the loop of open_manage_packages; product_name is modelled by the set of
\* chassis names it contains
OpenManagePackagesFrom(product_name, i, packages) ==
    IF i > Len(Gen12Chassis) THEN packages
    ELSE OpenManagePackagesFrom(
             product_name, i + 1,
             IF Gen12Chassis[i] \in product_name
             THEN packages \o <<"srvadmin-idrac7", "srvadmin-idracadm7">>
             ELSE packages)

\* OMSARedHat.open_manage_packages, called once on a new plugin object
OpenManagePackages(product_name) ==
    OpenManagePackagesFrom(product_name, 1, <<"srvadmin-all">>)

\* OMSARedHat.install_openmanage
RedHatInstallOpenmanage(t, product_name) ==
    With(InstallPackages(t, OpenManagePackages(product_name)), LAMBDA r :
    IF r.result THEN PluginRaise(r.t, OpenManagePackages(product_name))
    ELSE PluginReturn(r.t))

\* OMSARHEL6.install_openmanage
Rhel6InstallOpenmanage(t, product_name) ==
    PluginReturn(
        Step(Step(InstallPackages(t, OpenManagePackages(product_name)).t,
                  [step |-> "service_control", name |-> "sblim-sfcb", action |-> "stop"]),
             [step |-> "service_control", name |-> "dataeng", action |-> "stop"]))

\* OMSARedHat.run up to install_openmanage: baseline_yum, install_wget,
\* download_and_prepare_repositories
RedHatPrepare(t, proxy) ==
    Step(InstallPackage(Step(t, [step |-> "baseline_yum", proxy |-> proxy]), "wget").t,
         [step |-> "chroot", command |-> "wget -q -O - | bash", proxy |-> proxy])

\* OMSARedHat.run, install_openmanage being that of the class of the plugin
RedHatRun(t, extends, proxy, product_name) ==
    With(IF extends = "enterprise_linux_6"
         THEN Rhel6InstallOpenmanage(RedHatPrepare(t, proxy), product_name)
         ELSE RedHatInstallOpenmanage(RedHatPrepare(t, proxy), product_name), LAMBDA r :
    IF r.err # "" THEN r
    ELSE PluginReturn(Step(r.t, [step |-> "revert_yum", proxy |-> proxy])))

\* __extends__ of the plugin classes
DebianVariants == {"debian_8", "ubuntu_1404", "ubuntu_1604", "ubuntu_1804"}
RedHatVariants == {"enterprise_linux_7", "enterprise_linux_6"}

\* run() of the plugin object `plugin`
PluginRun(t, plugin) ==
    IF plugin.extends \in DebianVariants THEN DebianRun(t, plugin.extends)
    ELSE RedHatRun(t, plugin.extends, plugin.proxy, plugin.product_name)

----------------------------------------------------------------------------
(* Values of the variables a specification does not use *)

NoHost == [efi |-> FALSE, disks |-> <<>>]
NoDevice == [label |-> "unknown", size |-> 0, partitions |-> <<>>, healthy |-> TRUE]
NoParted == [partition_start |-> DefaultPartitionStart, alignment |-> DefaultAlignment]

NoLinkers == [pv |-> EmptyDict, part |-> EmptyDict]

----------------------------------------------------------------------------
(* Configuration documents the specifications draw their inputs from *)

\* a partition dict; every key but `size` may be missing
PartitionDict(name, mbr_type, flags, file_system, mount_point, fsck_option) ==
    [name |-> name, mbr_type |-> mbr_type, size |-> Some(PyStr(Str1MiB)),
     flags |-> flags, file_system |-> file_system, mount_point |-> mount_point,
     fsck_option |-> fsck_option]

MbrTypes == {Absent, Some("primary"), Some("logical")}

\* the largest number of partitions of an enumerated table
MaxParts == 5

\* partitions named n1, n2, ... that declare the roles `roles` and nothing else
RoleDicts(roles) ==
    [i \in 1..Len(roles) |->
        PartitionDict(Some("n" \o ToString(i)), roles[i], Absent, Absent, Absent, Absent)]

RoleSeqs == UNION {[1..n -> MbrTypes] : n \in 0..MaxParts}

\* tables long enough to reach the limit on logical partitions
LongRoleSeqs ==
    {[i \in 1..n |-> r] : n \in (MBR_LOGICAL_MAX + 1)..(MBR_LOGICAL_MAX + 5),
                          r \in {Absent, Some("logical")}}

TableTypes == {"msdos", "gpt", "bsd"}

\* partitions of a gpt table, each with or without the key `name`
GptNameSeqs == UNION {[1..n -> {Absent, Some("boot"), Some("data")}] : n \in 0..MaxParts}

GptDicts(names) ==
    [i \in 1..Len(names) |->
        PartitionDict(names[i], Absent, Absent, Absent, Absent, Absent)]

Ext4 == Some([type |-> Some("ext4"), require_fsck |-> TRUE])
Swap == Some([type |-> Some("swap"), require_fsck |-> FALSE])
\* a type _fs_selector does not know
Zfs == Some([type |-> Some("zfs"), require_fsck |-> TRUE])

MountVar == <<"/", "v", "a", "r">>
MountVarLog == <<"/", "v", "a", "r", "/", "l", "o", "g">>
MountHome == <<"/", "h", "o", "m", "e">>

\* a partition table dict bound to `disk`
TableDict(disk, label, partitions) ==
    [disk |-> Some(disk), label |-> label, partitions |-> Some(partitions),
     partition_start |-> Absent, alignment |-> Absent,
     no_bios_boot_partition |-> Absent]

RaidDict(name, partitions, pv, file_system, mount_point, fsck_option) ==
    [name |-> name, level |-> 1, partitions |-> partitions, pv |-> pv,
     file_system |-> file_system, mount_point |-> mount_point,
     fsck_option |-> fsck_option]

LvDict(name, file_system, mount_point, fsck_option) ==
    [name |-> Some(name), size |-> Some(PyStr(<<"5", "0", "%", "F", "R", "E", "E">>)),
     file_system |-> file_system, mount_point |-> mount_point,
     fsck_option |-> fsck_option]

VgDict(name, physical_volumes, logical_volumes) ==
    [name |-> name, physical_volumes |-> physical_volumes,
     logical_volumes |-> logical_volumes]

LayoutConfig(partition_tables, software_raid, volume_groups) ==
    [partition_tables |-> Some(partition_tables), software_raid |-> software_raid,
     volume_groups |-> volume_groups, no_bios_boot_partition |-> FALSE]

\* a host booted from BIOS with one disk of 100 GiB
BiosHost == [efi |-> FALSE, disks |-> <<[devname |-> "sda", size |-> Bytes(100 * 1024, 0)]>>]

PlainPartition(name) == PartitionDict(Some(name), Absent, Absent, Absent, Absent, Absent)
LvmPartition(name) == PartitionDict(Some(name), Absent, Some({"lvm"}), Absent, Absent, Absent)

RootLv == LvDict("root", Ext4, Some(Root), Absent)

(* Configurations about the linkers: which partitions carry `lvm`, which RAID
   device is a physical volume, what the volume groups refer to *)

LinkPartitionLists ==
    {<<first>> : first \in {LvmPartition("pv0"), PlainPartition("pv0")}}
    \cup {<<first, second>> :
             first \in {LvmPartition("pv0"), PlainPartition("pv0")},
             second \in {LvmPartition("pv1"), PlainPartition("pv1")}}

LinkRaids ==
    {Absent}
    \cup {Some(<<RaidDict("md0", <<member>>, pv, Absent, Absent, Absent)>>) :
             member \in {"pv0", "pv1"}, pv \in {Absent, Some("md0")}}

PvNames == {"pv0", "pv1", "md0"}

\* the longest physical_volumes list of an enumerated volume group
MaxPvRefs == 2

PvRefLists == {Absent} \cup {Some(refs) : refs \in UNION {[1..n -> PvNames] : n \in 0..MaxPvRefs}}

LinkVolumeGroups ==
    {Absent}
    \cup {Some(<<VgDict("vg0", refs, Some(<<RootLv>>))>>) : refs \in PvRefLists}
    \cup {Some(<<VgDict("vg0", Some(<<"pv0">>), Some(<<RootLv>>)),
                 VgDict("vg1", Some(<<ref>>), Some(<<>>))>>) : ref \in PvNames}
    \cup {Some(<<VgDict("vg0", Some(<<"pv0">>), Absent)>>),
          Some(<<VgDict("vg0", Some(<<"pv0">>),
                        Some(<<LvDict("data", Absent, Some(MountHome), Absent)>>))>>)}

LinkConfigs ==
    {LayoutConfig(<<TableDict("first", Some("msdos"), partitions)>>, raid, vgs) :
        partitions \in LinkPartitionLists, raid \in LinkRaids, vgs \in LinkVolumeGroups}

(* Configurations about the fsck pass: one partition, RAID device or logical
   volume with every combination of file system, mount point and fsck_option *)

FsckFileSystems == {Absent, Ext4, Swap, Zfs}
FsckMountPoints == {Absent, Some(<<>>), Some(Root), Some(MountVar)}
FsckOptions == {Absent, Some(0), Some(1), Some(2), Some(5)}

FsckConfigs ==
    {LayoutConfig(<<TableDict("first", Some("msdos"),
                              <<PartitionDict(Some("pv0"), Absent, Some({"lvm"}),
                                              fs, mp, opt)>>)>>,
                  Absent, Absent) :
        fs \in FsckFileSystems, mp \in FsckMountPoints, opt \in FsckOptions}
    \cup
    {LayoutConfig(<<TableDict("first", Some("msdos"), <<LvmPartition("pv0")>>)>>,
                  Some(<<RaidDict("md0", <<"pv0">>, Absent, fs, mp, opt)>>), Absent) :
        fs \in FsckFileSystems, mp \in FsckMountPoints, opt \in FsckOptions}
    \cup
    {LayoutConfig(<<TableDict("first", Some("msdos"), <<LvmPartition("pv0")>>)>>,
                  Absent,
                  Some(<<VgDict("vg0", Some(<<"pv0">>),
                                Some(<<LvDict("lv1", fs, mp, opt)>>))>>)) :
        fs \in FsckFileSystems, mp \in FsckMountPoints, opt \in FsckOptions}

(* Configurations about the order of logical volumes *)

LvMountPoints == {Absent, Some(Root), Some(MountVar), Some(MountVarLog), Some(MountHome)}

\* the largest number of logical volumes of an enumerated volume group
MaxLvs == 3

LvLists ==
    UNION {{[i \in 1..n |-> LvDict("lv" \o ToString(i), Ext4, mps[i], Absent)] :
               mps \in [1..n -> LvMountPoints]} : n \in 0..MaxLvs}

LvOrderConfigs ==
    {LayoutConfig(<<TableDict("first", Some("msdos"), <<LvmPartition("pv0")>>)>>,
                  Absent, Some(<<VgDict("vg0", Some(<<"pv0">>), Some(lvs))>>)) :
        lvs \in LvLists}


(* Hosts and configurations about the disk labels *)

\* 100 GiB, one byte less than 2 TiB, 2 TiB, 3 TiB
DiskSizes ==
    {Bytes(100 * 1024, 0), Bytes(2 * 1024 * 1024 - 1, Limb - 1),
     Bytes(2 * 1024 * 1024, 0), Bytes(3 * 1024 * 1024, 0)}

\* hosts with the disk sda, or the disks sda and sdb in this order
LabelHosts ==
    {[efi |-> efi, disks |-> <<[devname |-> "sda", size |-> first]>>] :
        efi \in BOOLEAN, first \in DiskSizes}
    \cup
    {[efi |-> efi, disks |-> <<[devname |-> "sda", size |-> first],
                               [devname |-> "sdb", size |-> second]>>] :
        efi \in BOOLEAN, first \in DiskSizes, second \in DiskSizes}

BiosGrubPartition ==
    PartitionDict(Some("grub"), Absent, Some({"bios_grub"}), Absent, Absent, Absent)

EspPartition ==
    PartitionDict(Some("esp"), Absent, Some({"boot"}),
                  Some([type |-> Some("efi"), require_fsck |-> FALSE]),
                  Some(<<"/", "b", "o", "o", "t", "/", "e", "f", "i">>), Absent)

LabelPartitionLists ==
    {<<>>, <<PlainPartition("p1")>>, <<BiosGrubPartition, PlainPartition("p1")>>,
     <<PlainPartition("p1"), EspPartition>>}

\* the tables that come first in a configuration, with or without the key
\* no_bios_boot_partition in the partition table object itself
LabelTables ==
    UNION {{[TableDict(disk, label, partitions)
                EXCEPT !.no_bios_boot_partition = no_bios_boot_partition] :
               disk \in {"first", "any", "sdb"},
               label \in {Absent, Some("msdos"), Some("gpt")},
               partitions \in LabelPartitionLists} :
              no_bios_boot_partition \in {Absent, Some(TRUE)}}

\* the largest number of partition tables of an enumerated configuration
MaxTables == 2

\* the tables that follow the first one of a configuration
MoreTables ==
    UNION {[1..n -> {TableDict("sdb", Absent, <<PlainPartition("p9")>>),
                     TableDict("first", Some("gpt"), <<PlainPartition("p9")>>)}] :
              n \in 0..(MaxTables - 1)}

LabelConfigs ==
    {[LayoutConfig(<<table>> \o more, Absent, Absent)
         EXCEPT !.no_bios_boot_partition = no_bios_boot_partition] :
        table \in LabelTables, more \in MoreTables, no_bios_boot_partition \in BOOLEAN}

(* Devices and requests for parted *)

\* the largest end of the partition found on a small device
MaxEnd == 12

\* the largest alignment of a small device
MaxAlignment == 4

\* a device of 64 bytes aligned to a few bytes, and one of 16 MiB aligned to
\* 1 MiB as PartedInterface is by default
SmallFields == {[partition_start |-> 4, alignment |-> a] : a \in 1..MaxAlignment}

DefaultFields == [partition_start |-> DefaultPartitionStart, alignment |-> DefaultAlignment]

Row(number, start, end, type) ==
    [number |-> number, start |-> start, end |-> end, type |-> type,
     name |-> "", flags |-> {}]

\* the table found on the device: empty, or one partition
FoundRows(label, start, ends) ==
    {<<>>} \cup {<<Row(1, start, end, IF label = "msdos" THEN "primary" ELSE "")>> :
                    end \in ends}

SmallDevices ==
    UNION {{[label |-> label, size |-> 64, partitions |-> rows, healthy |-> healthy] :
               healthy \in BOOLEAN, rows \in FoundRows(label, 0, 0..MaxEnd)} :
              label \in {"msdos", "gpt"}}

DefaultDevices ==
    UNION {{[label |-> label, size |-> 16 * 1048576, partitions |-> rows,
             healthy |-> healthy] :
               healthy \in BOOLEAN,
               rows \in FoundRows(label, 1048576,
                                  {1500000, 2097151, 2097152, 3 * 1048576})} :
              label \in {"msdos", "gpt"}}

PartTypes == {"primary", "logical", "data"}

PartSizes(dev) ==
    IF dev.size = 64 THEN {1, 4, 48, 59, 60, 100}
    ELSE {1048576, 13 * 1048576, 14 * 1048576, 15 * 1048576}

----------------------------------------------------------------------------
(* What a call leaves in the variables *)

\* the result of a call of `op` that threads the linkers
ReturnWithLinkers(op, g) ==
    /\ result' = [err |-> g.err, val |-> g.val, op |-> op]
    /\ pv_linker' = g.L.pv
    /\ partition_linker' = g.L.part

\* the result of set_disk_labels
ReturnLabels(r) == result' = [err |-> r.err, val |-> r.val, op |-> "set_disk_labels"]

\* the result of create_partition and the device it leaves
ReturnPartition(r) ==
    /\ result' = [err |-> r.err, val |-> r.val, op |-> "create_partition",
                  cmds |-> r.cmds, last_partition |-> r.last_partition,
                  start |-> r.start, end |-> r.end]
    /\ device' = r.device

----------------------------------------------------------------------------
(* SpecOnce: one call of layout_from_config in a fresh process *)

InitOnce ==
    /\ pv_linker = EmptyDict
    /\ partition_linker = EmptyDict
    /\ host = BiosHost
    /\ device = NoDevice
    /\ parted = NoParted
    /\ target = NoTarget
    /\ \/ \E layout_config \in LinkConfigs :
             args = [op |-> "layout_from_config", layout_config |-> layout_config]
       \/ \E layout_config \in FsckConfigs :
             args = [op |-> "layout_from_config", layout_config |-> layout_config]
       \/ \E layout_config \in LvOrderConfigs :
             args = [op |-> "layout_from_config", layout_config |-> layout_config]
    /\ result = NoResult
    /\ pc = "layout_from_config"

CallLayoutFromConfig ==
    /\ pc = "layout_from_config"
    /\ ReturnWithLinkers("layout_from_config",
                         LayoutFromConfig(args.layout_config, host,
                                          [pv |-> pv_linker, part |-> partition_linker]))
    /\ pc' = "done"
    /\ UNCHANGED <<host, device, parted, target, args>>

NextOnce == CallLayoutFromConfig

SpecOnce == InitOnce /\ [][NextOnce]_vars

----------------------------------------------------------------------------
(* SpecGen: any number of calls of layout_from_config in one process; the  *)
(* linkers are module globals and live across the calls                    *)

InitGen ==
    /\ pv_linker = EmptyDict
    /\ partition_linker = EmptyDict
    /\ host = BiosHost
    /\ device = NoDevice
    /\ parted = NoParted
    /\ target = NoTarget
    /\ args = NoCall
    /\ result = NoResult
    /\ pc = "idle"

\* the driver calls layout_from_config with a configuration document
EnterLayoutFromConfig ==
    /\ pc = "idle"
    /\ \E layout_config \in LinkConfigs :
          args' = [op |-> "layout_from_config", layout_config |-> layout_config]
    /\ pc' = "layout_from_config"
    /\ UNCHANGED <<pv_linker, partition_linker, host, device, parted, target, result>>

\* the driver is done with the layout (or the error) of the last call
DropResult ==
    /\ pc = "done"
    /\ args' = NoCall
    /\ result' = NoResult
    /\ pc' = "idle"
    /\ UNCHANGED <<pv_linker, partition_linker, host, device, parted, target>>

NextGen == EnterLayoutFromConfig \/ CallLayoutFromConfig \/ DropResult

SpecGen == InitGen /\ [][NextGen]_vars

----------------------------------------------------------------------------
(* SpecRoles: one call of generate_partitions on a drawn table *)

InitRoles ==
    /\ pv_linker = EmptyDict
    /\ partition_linker = EmptyDict
    /\ host = NoHost
    /\ device = NoDevice
    /\ parted = NoParted
    /\ target = NoTarget
    /\ \/ \E table_type \in TableTypes, roles \in RoleSeqs \cup LongRoleSeqs :
             /\ roles \in LongRoleSeqs => table_type = "msdos"
             /\ args = [op |-> "generate_partitions", table_type |-> table_type,
                        partition_dicts |-> RoleDicts(roles)]
       \/ \E names \in GptNameSeqs :
             args = [op |-> "generate_partitions", table_type |-> "gpt",
                     partition_dicts |-> GptDicts(names)]
    /\ result = NoResult
    /\ pc = "generate_partitions"

CallGeneratePartitions ==
    /\ pc = "generate_partitions"
    /\ ReturnWithLinkers("generate_partitions",
                         GeneratePartitions(args.table_type, args.partition_dicts,
                                            [pv |-> pv_linker, part |-> partition_linker]))
    /\ pc' = "done"
    /\ UNCHANGED <<host, device, parted, target, args>>

NextRoles == CallGeneratePartitions

SpecRoles == InitRoles /\ [][NextRoles]_vars

----------------------------------------------------------------------------
(* SpecLabels: one call of set_disk_labels on a drawn host and configuration *)

InitLabels ==
    /\ pv_linker = EmptyDict
    /\ partition_linker = EmptyDict
    /\ host \in LabelHosts
    /\ device = NoDevice
    /\ parted = NoParted
    /\ target = NoTarget
    /\ \E layout_config \in LabelConfigs :
          args = [op |-> "set_disk_labels", layout_config |-> layout_config]
    /\ result = NoResult
    /\ pc = "set_disk_labels"

CallSetDiskLabels ==
    /\ pc = "set_disk_labels"
    /\ ReturnLabels(SetDiskLabels(LayoutStub(host), args.layout_config, host))
    /\ pc' = "done"
    /\ UNCHANGED <<pv_linker, partition_linker, host, device, parted, target, args>>

NextLabels == CallSetDiskLabels

SpecLabels == InitLabels /\ [][NextLabels]_vars

----------------------------------------------------------------------------
(* SpecParted: one call of create_partition on a drawn device *)

InitParted ==
    /\ pv_linker = EmptyDict
    /\ partition_linker = EmptyDict
    /\ host = NoHost
    /\ \/ device \in SmallDevices /\ parted \in SmallFields
       \/ device \in DefaultDevices /\ parted = DefaultFields
    /\ target = NoTarget
    /\ args = NoCall
    /\ result = NoResult
    /\ pc = "idle"

\* the caller asks for a partition
EnterCreatePartition ==
    /\ pc = "idle"
    /\ \E type_or_name \in PartTypes, part_size \in PartSizes(device),
          boot_flag \in BOOLEAN, lvm_flag \in BOOLEAN :
          args' = [op |-> "create_partition", type_or_name |-> type_or_name,
                   part_size |-> part_size, boot_flag |-> boot_flag,
                   lvm_flag |-> lvm_flag]
    /\ pc' = "create_partition"
    /\ UNCHANGED <<pv_linker, partition_linker, host, device, parted, target, result>>

CallCreatePartition ==
    /\ pc = "create_partition"
    /\ ReturnPartition(CreatePartition(device, parted, args.type_or_name, args.part_size,
                                       args.boot_flag, args.lvm_flag))
    /\ pc' = "done"
    /\ UNCHANGED <<pv_linker, partition_linker, host, parted, target, args>>

NextParted == EnterCreatePartition \/ CallCreatePartition

SpecParted == InitParted /\ [][NextParted]_vars

----------------------------------------------------------------------------
(* SpecPercent: PercentString built from a drawn string *)

\* the longest text before the first '%' of an enumerated string
MaxPrefix == 4

PercentPrefixes == UNION {[1..n -> {"0", "1", "4", "a"}] : n \in 0..MaxPrefix}

\* what follows the prefix: no '%', one or two of them, and a modifier
PercentTails ==
    {<<>>, <<"%">>, <<"%", "%">>, <<"%", "F", "R", "E", "E">>, <<"%", "f", "r", "e", "e">>,
     <<"%", "F", "r", "e", "e">>, <<"%", "F", "R", "E">>, <<"%", "x">>,
     <<"%", "F", "R", "E", "E", "x">>, <<"%", "F", "R", "E", "E", "%">>}

PercentInputs == {p \o t : p \in PercentPrefixes, t \in PercentTails}

\* the object built, or the error raised
ReturnPercentString(r) == result' = [err |-> r.err, val |-> r.val, op |-> "PercentString"]

InitPercent ==
    /\ pv_linker = EmptyDict
    /\ partition_linker = EmptyDict
    /\ host = NoHost
    /\ device = NoDevice
    /\ parted = NoParted
    /\ target = NoTarget
    /\ \E our_string \in PercentInputs :
          args = [op |-> "PercentString", our_string |-> our_string]
    /\ result = NoResult
    /\ pc = "PercentString"

CallPercentString ==
    /\ pc = "PercentString"
    /\ ReturnPercentString(PercentString(args.our_string))
    /\ pc' = "done"
    /\ UNCHANGED <<pv_linker, partition_linker, host, device, parted, target, args>>

NextPercent == CallPercentString

SpecPercent == InitPercent /\ [][NextPercent]_vars

----------------------------------------------------------------------------
(* SpecTarget: LinuxTarget.run() on a drawn configuration document and target *)

\* the largest number of users of an enumerated auth section
MaxUsers == 2

\* the largest number of commands that fail in the target during one run
MaxFailures == 1

UserDict(group, gid, groups, password) ==
    [group |-> group, gid |-> gid, groups |-> groups, password |-> password,
     uid |-> Absent]

\* a user without options (null), and users with and without a primary
\* group, supplementary groups and a password
UserValues ==
    {Absent,
     Some(UserDict(Absent, Absent, Absent, Some("secret"))),
     Some(UserDict(Some("dev"), Some(1000), Absent, Absent)),
     Some(UserDict(Some("dev"), Absent, Some(<<"dev", "ops", "ops">>), Some("secret")))}

UserEntries == {[key |-> k, value |-> v] : k \in {"root", "alice", "bob"}, v \in UserValues}

\* a mapping has each key once; the sequence is the order of iteration
UsersSections ==
    {s \in UNION {[1..n -> UserEntries] : n \in 0..MaxUsers} :
        \A i \in 1..Len(s) : \A j \in 1..Len(s) : s[i].key = s[j].key => i = j}

GroupsSections ==
    {Absent,
     Some(<<[key |-> "dev", value |-> Absent]>>),
     Some(<<[key |-> "ops", value |-> Some([gid |-> Some(27), system |-> Some(TRUE)])],
            [key |-> "dev", value |-> Absent]>>)}

PressConfiguration(localization, auth, network) ==
    [localization |-> localization, auth |-> auth, network |-> network]

\* documents with an auth section only
AuthConfigurations ==
    {PressConfiguration(Absent, Some([users |-> Some(users), groups |-> groups]), Absent) :
        users \in UsersSections, groups \in GroupsSections}

LocalizationSections ==
    {Absent} \cup
    {Some([language |-> language, timezone |-> timezone]) :
        language \in {Absent, Some("en_US.UTF-8")}, timezone \in {Absent, Some("UTC")}}

NetworkSections ==
    {Absent, Some([hostname |-> Absent]), Some([hostname |-> Some("web1")])}

\* documents with each section and each key of a section present or absent
SectionConfigurations ==
    {PressConfiguration(localization, auth, network) :
        localization \in LocalizationSections,
        auth \in {Absent} \cup
                 {Some([users |-> users, groups |-> groups]) :
                     users \in {Absent,
                                Some(<<[key |-> "alice",
                                        value |-> Some(UserDict(Some("dev"), Absent, Absent,
                                                                Some("secret")))]>>)},
                     groups \in {Absent, Some(<<[key |-> "ops", value |-> Absent]>>)}},
        network \in NetworkSections}

\* a freshly installed root, and one that has the group dev and the user alice
Targets ==
    {[NoTarget EXCEPT !.groups = {"root"}, !.users = {"root"}],
     [NoTarget EXCEPT !.groups = {"root", "dev"}, !.users = {"root", "alice"}]}

\* the number of commands that failed in the target so far
Failures(t) == Cardinality({i \in 1..Len(t.commands) : ~t.commands[i].ok})

\* the outcomes a command run in the target can have
Outcomes(t) == IF Failures(t) < MaxFailures THEN BOOLEAN ELSE {TRUE}

InitTarget ==
    /\ pv_linker = EmptyDict
    /\ partition_linker = EmptyDict
    /\ host = NoHost
    /\ device = NoDevice
    /\ parted = NoParted
    /\ target \in Targets
    /\ \E press_configuration \in AuthConfigurations \cup SectionConfigurations :
          args = [op |-> "run", press_configuration |-> press_configuration,
                  todo |-> <<>>]
    /\ result = NoResult
    /\ pc = "localization"

\* run(): self.localization()
CallLocalization ==
    /\ pc = "localization"
    /\ target' = Localization(args.press_configuration, target)
    /\ pc' = "authentication"
    /\ UNCHANGED <<pv_linker, partition_linker, host, device, parted, args, result>>

\* run(): self.authentication() is entered; todo holds the calls its loops
\* will make
EnterAuthentication ==
    /\ pc = "authentication"
    /\ args' = [args EXCEPT !.todo = AuthAttempts(args.press_configuration)]
    /\ pc' = "auth_loop"
    /\ UNCHANGED <<pv_linker, partition_linker, host, device, parted, target, result>>

\* the next call of a loop of authentication() is __groupadd
GroupaddStep ==
    /\ pc = "auth_loop" /\ Len(args.todo) > 0 /\ Head(args.todo).kind = "groupadd"
    /\ \E ok \in Outcomes(target) : target' = Groupadd(target, Head(args.todo), ok)
    /\ args' = [args EXCEPT !.todo = Tail(@)]
    /\ UNCHANGED <<pv_linker, partition_linker, host, device, parted, result, pc>>

\* the loop over the users reaches lines 71-82
UseraddStep ==
    /\ pc = "auth_loop" /\ Len(args.todo) > 0 /\ Head(args.todo).kind = "useradd"
    /\ \E ok \in Outcomes(target) : target' = Useradd(target, Head(args.todo), ok)
    /\ args' = [args EXCEPT !.todo = Tail(@)]
    /\ UNCHANGED <<pv_linker, partition_linker, host, device, parted, result, pc>>

\* the loop over the users reaches lines 86-93
PasswordStep ==
    /\ pc = "auth_loop" /\ Len(args.todo) > 0 /\ Head(args.todo).kind = "password"
    /\ \E ok \in Outcomes(target) : target' = SetPassword(target, Head(args.todo), ok)
    /\ args' = [args EXCEPT !.todo = Tail(@)]
    /\ UNCHANGED <<pv_linker, partition_linker, host, device, parted, result, pc>>

\* a loop of authentication() raises, and so does run()
RaiseStep ==
    /\ pc = "auth_loop" /\ Len(args.todo) > 0 /\ Head(args.todo).kind = "raise"
    /\ result' = [err |-> Head(args.todo).err, val |-> Absent, op |-> "run"]
    /\ args' = [args EXCEPT !.todo = <<>>]
    /\ pc' = "done"
    /\ UNCHANGED <<pv_linker, partition_linker, host, device, parted, target>>

\* authentication() returns
LeaveAuthentication ==
    /\ pc = "auth_loop" /\ Len(args.todo) = 0
    /\ pc' = "set_hostname"
    /\ UNCHANGED <<pv_linker, partition_linker, host, device, parted, target, args, result>>

\* run(): self.set_hostname(), and run() returns
CallSetHostname ==
    /\ pc = "set_hostname"
    /\ target' = SetHostname(args.press_configuration, target)
    /\ result' = [err |-> "", val |-> Absent, op |-> "run"]
    /\ pc' = "done"
    /\ UNCHANGED <<pv_linker, partition_linker, host, device, parted, args>>

NextTarget ==
    \/ CallLocalization
    \/ EnterAuthentication
    \/ GroupaddStep
    \/ UseraddStep
    \/ PasswordStep
    \/ RaiseStep
    \/ LeaveAuthentication
    \/ CallSetHostname

SpecTarget == InitTarget /\ [][NextTarget]_vars

----------------------------------------------------------------------------
(* SpecPlugin: a server management plugin is instantiated and run *)

\* the packages a target may fail to install
Packages == {"openipmi", "srvadmin-all", "srvadmin-idrac7", "wget"}

\* a target that fails to install the packages `failing` and reports the
\* product name `product_name`
PluginTarget(failing, product_name) ==
    [groups |-> {}, users |-> {}, writes |-> <<>>, commands |-> <<>>,
     failing |-> failing, product_name |-> product_name]

PluginTargets ==
    {PluginTarget(failing, product_name) :
        failing \in SUBSET Packages, product_name \in SUBSET {"R720", "R820"}}

\* the value of a plugin variable before the plugin is instantiated
NoPlugin == [op |-> "none"]

InitPlugin ==
    /\ pv_linker = EmptyDict
    /\ partition_linker = EmptyDict
    /\ host = NoHost
    /\ device = NoDevice
    /\ parted = NoParted
    /\ target \in PluginTargets
    /\ args = NoPlugin
    /\ result = NoResult
    /\ pc = "idle"

\* the registry instantiates the plugin of the running target; OMSARedHat
\* reads the proxy of its configuration and the product name
InstantiatePlugin ==
    /\ pc = "idle"
    /\ \E extends \in DebianVariants \cup RedHatVariants, proxy \in {Absent, Some("10.0.0.1:3128")} :
          /\ extends \in DebianVariants => proxy = Absent
          /\ args' = [op |-> "run", extends |-> extends, proxy |-> proxy,
                      product_name |-> IF extends \in RedHatVariants
                                       THEN target.product_name ELSE {}]
    /\ pc' = "run"
    /\ UNCHANGED <<pv_linker, partition_linker, host, device, parted, target, result>>

\* what run() leaves in the variables
ReturnPlugin(r) ==
    /\ target' = r.t
    /\ result' = [err |-> r.err, val |-> r.val, op |-> "plugin_run"]

CallPluginRun ==
    /\ pc = "run"
    /\ ReturnPlugin(PluginRun(target, args))
    /\ pc' = "done"
    /\ UNCHANGED <<pv_linker, partition_linker, host, device, parted, args>>

NextPlugin == InstantiatePlugin \/ CallPluginRun

SpecPlugin == InitPlugin /\ [][NextPlugin]_vars

----------------------------------------------------------------------------
(* SpecWipe: wipe_table on a drawn device *)

\* the largest number of primary and extended partitions, and of logical
\* partitions, of an enumerated table
MaxWipe == 3
MaxLogicals == 2

\* the rows of an msdos table with the types `types` for the numbers 1, 2, ...
\* and `logicals` logical partitions numbered from 5
WipeRows(types, logicals) ==
    [i \in 1..Len(types) |-> Row(i, 8 * i, 8 * i + 7, types[i])]
    \o [j \in 1..logicals |-> Row(4 + j, 8 * (Len(types) + j), 8 * (Len(types) + j) + 7,
                                   "logical")]

\* at most one extended partition, and logical partitions only with one
WipeTables ==
    {WipeRows(types, 0) :
        types \in UNION {[1..n -> {"primary"}] : n \in 0..MaxWipe}}
    \cup
    UNION {{WipeRows([i \in 1..n |-> IF i = e THEN "extended" ELSE "primary"], logicals) :
               logicals \in 0..MaxLogicals, e \in 1..n} : n \in 1..MaxWipe}

WipeDevices ==
    {[label |-> "msdos", size |-> 64, partitions |-> rows, healthy |-> healthy] :
        rows \in WipeTables, healthy \in BOOLEAN}
    \cup
    {[label |-> "gpt", size |-> 64, healthy |-> healthy,
      partitions |-> [i \in 1..n |-> [Row(i, 8 * i, 8 * i + 7, "") EXCEPT !.name = "data"]]] :
        n \in 0..(MaxWipe + 1), healthy \in BOOLEAN}
    \cup
    {[label |-> "unknown", size |-> 64, partitions |-> <<>>, healthy |-> TRUE]}

\* a remove command issued and the numbers the table had when it was issued
Removal(dev, number) == [cmd |-> "rm", number |-> number, numbers |-> Numbers(dev)]

InitWipe ==
    /\ pv_linker = EmptyDict
    /\ partition_linker = EmptyDict
    /\ host = NoHost
    /\ device \in WipeDevices
    /\ parted = DefaultFields
    /\ target = NoTarget
    /\ args = NoCall
    /\ result = NoResult
    /\ pc = "idle"

\* wipe_table() is called; found is the device as the call finds it
EnterWipeTable ==
    /\ pc = "idle"
    /\ args' = [op |-> "wipe_table", found |-> device, todo |-> <<>>]
    /\ result' = [err |-> "", val |-> Absent, op |-> "wipe_table", cmds |-> <<>>]
    /\ pc' = "wipe_table"
    /\ UNCHANGED <<pv_linker, partition_linker, host, device, parted, target>>

\* lines 175-177 when there is an extended partition: it is removed, then the
\* partitions are listed for the loop
RemoveExtendedStep ==
    /\ pc = "wipe_table"
    /\ Has(ExtendedPartition(device))
    /\ device' = RemovePartition(device, Val(ExtendedPartition(device)).number).device
    /\ result' = [result EXCEPT
                     !.err = RemovePartition(device, Val(ExtendedPartition(device)).number).err,
                     !.cmds = Append(@, Removal(device, Val(ExtendedPartition(device)).number))]
    /\ args' = [args EXCEPT !.todo = WipeListing(device, device')]
    /\ pc' = IF result'.err = "" THEN "wipe_loop" ELSE "done"
    /\ UNCHANGED <<pv_linker, partition_linker, host, parted, target>>

\* lines 175-176 when there is none: the partitions are listed for the loop
NoExtendedStep ==
    /\ pc = "wipe_table"
    /\ ~Has(ExtendedPartition(device))
    /\ args' = [args EXCEPT !.todo = WipeListing(device, device)]
    /\ pc' = "wipe_loop"
    /\ UNCHANGED <<pv_linker, partition_linker, host, device, parted, target, result>>

\* one iteration of the loop of lines 179-180
RemoveStep ==
    /\ pc = "wipe_loop" /\ Len(args.todo) > 0
    /\ device' = RemovePartition(device, Head(args.todo).number).device
    /\ result' = [result EXCEPT
                     !.err = RemovePartition(device, Head(args.todo).number).err,
                     !.cmds = Append(@, Removal(device, Head(args.todo).number))]
    /\ args' = [args EXCEPT !.todo = Tail(@)]
    /\ pc' = IF result'.err = "" THEN "wipe_loop" ELSE "done"
    /\ UNCHANGED <<pv_linker, partition_linker, host, parted, target>>

\* wipe_table() returns
LeaveWipeTable ==
    /\ pc = "wipe_loop" /\ Len(args.todo) = 0
    /\ pc' = "done"
    /\ UNCHANGED <<pv_linker, partition_linker, host, device, parted, target, args, result>>

NextWipe ==
    \/ EnterWipeTable
    \/ RemoveExtendedStep
    \/ NoExtendedStep
    \/ RemoveStep
    \/ LeaveWipeTable

SpecWipe == InitWipe /\ [][NextWipe]_vars


----------------------------------------------------------------------------
(* SpecPlace: calls of create_partition, one after the other, on a device   *)
(* whose labelled table is empty.  The flags are left out: they do not bear *)
(* on where a partition is put.                                             *)

\* the most partitions the calls create
MaxCalls == 3

EmptyDevices ==
    {[label |-> label, size |-> size, partitions |-> <<>>, healthy |-> TRUE] :
        label \in {"msdos", "gpt"}, size \in {64, 16 * 1048576}}

\* the mkpart command of the partition that was asked for: the last one
\* create_partition issues (line 234)
RequestedMkpart(cmds) ==
    cmds[CHOOSE i \in 1..Len(cmds) :
            /\ cmds[i].cmd = "mkpart"
            /\ \A j \in (i + 1)..Len(cmds) : cmds[j].cmd # "mkpart"]

\* what the caller has after a call: nothing of the call itself, the
\* partitions the calls that returned asked for, in order, and whether a
\* call raised
Placed(created, failed) ==
    [err |-> "", val |-> Absent, op |-> "none", created |-> created, failed |-> failed]

\* the result of create_partition, the device it leaves, and the partitions
\* created so far
ReturnPlaced(r) ==
    /\ result' = [err |-> r.err, val |-> r.val, op |-> "create_partition",
                  cmds |-> r.cmds, last_partition |-> r.last_partition,
                  start |-> r.start, end |-> r.end,
                  created |-> IF r.err = ""
                              THEN Append(result.created, RequestedMkpart(r.cmds))
                              ELSE result.created,
                  failed |-> result.failed \/ r.err # ""]
    /\ device' = r.device

InitPlace ==
    /\ pv_linker = EmptyDict
    /\ partition_linker = EmptyDict
    /\ host = NoHost
    /\ device \in EmptyDevices
    /\ \/ device.size = 64 /\ parted \in SmallFields
       \/ device.size # 64 /\ parted = DefaultFields
    /\ target = NoTarget
    /\ args = NoCall
    /\ result = Placed(<<>>, FALSE)
    /\ pc = "idle"

\* the caller asks for one more partition
EnterPlace ==
    /\ pc = "idle"
    /\ Len(result.created) < MaxCalls
    /\ \E type_or_name \in PartTypes, part_size \in PartSizes(device) :
          args' = [op |-> "create_partition", type_or_name |-> type_or_name,
                   part_size |-> part_size, boot_flag |-> FALSE, lvm_flag |-> FALSE]
    /\ pc' = "create_partition"
    /\ UNCHANGED <<pv_linker, partition_linker, host, device, parted, target, result>>

CallPlace ==
    /\ pc = "create_partition"
    /\ ReturnPlaced(CreatePartition(device, parted, args.type_or_name, args.part_size,
                                    args.boot_flag, args.lvm_flag))
    /\ pc' = "done"
    /\ UNCHANGED <<pv_linker, partition_linker, host, parted, target, args>>

\* the caller goes on after the call
LeavePlace ==
    /\ pc = "done"
    /\ args' = NoCall
    /\ result' = Placed(result.created, result.failed)
    /\ pc' = "idle"
    /\ UNCHANGED <<pv_linker, partition_linker, host, device, parted, target>>

NextPlace == EnterPlace \/ CallPlace \/ LeavePlace

SpecPlace == InitPlace /\ [][NextPlace]_vars
----------------------------------------------------------------------------
(* C1: MBR role assignment *)

C1_MbrTypes == [i \in 1..Len(args.partition_dicts) |-> args.partition_dicts[i].mbr_type]

C1_MaxPrimary ==
    IF (\E i \in 1..Len(C1_MbrTypes) : C1_MbrTypes[i] = Some("logical"))
       \/ Len(C1_MbrTypes) > 4
    THEN 3 ELSE 4

\* The primaries assigned before partition i when nothing failed before it:
\* every explicit primary was counted, and every partition without a role
\* while the count was below max_primary
C1_PrimariesBefore(i) ==
    LET n == Cardinality({j \in 1..(i - 1) :
                             C1_MbrTypes[j] \in {Absent, Some("primary")}})
    IN  IF n < C1_MaxPrimary THEN n ELSE C1_MaxPrimary

\* the role the claim gives to each partition
C1_Roles ==
    [i \in 1..Len(C1_MbrTypes) |->
        IF C1_MbrTypes[i] # Absent THEN Val(C1_MbrTypes[i])
        ELSE IF C1_PrimariesBefore(i) < C1_MaxPrimary THEN "primary" ELSE "logical"]

C1_PrimaryOverflow ==
    \E i \in 1..Len(C1_MbrTypes) :
        C1_MbrTypes[i] = Some("primary") /\ C1_PrimariesBefore(i) >= C1_MaxPrimary

C1_LogicalOverflow ==
    LET roles == C1_Roles IN
    \E i \in 1..Len(roles) :
        /\ roles[i] = "logical"
        /\ Cardinality({j \in 1..(i - 1) : roles[j] = "logical"}) > MBR_LOGICAL_MAX

C1_Case == pc = "done" /\ result.op = "generate_partitions" /\ args.table_type = "msdos"

C1_Agrees(failed) ==
    C1_Case =>
        /\ (result.err = "GeneratorError") = failed
        /\ ~failed =>
              /\ result.err = ""
              /\ Len(result.val) = Len(C1_MbrTypes)
              /\ LET roles == C1_Roles IN
                 \A i \in 1..Len(roles) : result.val[i].type_or_name = roles[i]

----------------------------------------------------------------------------
(* What a configuration declares and what a layout holds *)

Cfg == args.layout_config

CfgTables == IF Has(Cfg.partition_tables) THEN Val(Cfg.partition_tables) ELSE <<>>

CfgPartitions(t) == IF Has(CfgTables[t].partitions) THEN Val(CfgTables[t].partitions) ELSE <<>>

CfgRaids == IF Has(Cfg.software_raid) THEN Val(Cfg.software_raid) ELSE <<>>

CfgVgs == IF Has(Cfg.volume_groups) THEN Val(Cfg.volume_groups) ELSE <<>>

CfgLvs(k) == IF Has(CfgVgs[k].logical_volumes) THEN Val(CfgVgs[k].logical_volumes) ELSE <<>>

\* every file system, mount point and fsck_option a configuration declares,
\* on partitions, RAID devices and logical volumes
CfgObjects ==
    UNION {{CfgPartitions(t)[i] : i \in 1..Len(CfgPartitions(t))} : t \in 1..Len(CfgTables)}
    \cup {CfgRaids[r] : r \in 1..Len(CfgRaids)}
    \cup UNION {{CfgLvs(k)[j] : j \in 1..Len(CfgLvs(k))} : k \in 1..Len(CfgVgs)}

LayoutFromConfigReturned ==
    pc = "done" /\ result.op = "layout_from_config" /\ result.err = ""

\* the generated partition of partition i of table t
GenPartition(t, i) == result.val.partition_tables[t].partitions[i]

\* the attached logical volumes of volume group k
GenLvs(k) == result.val.volume_groups[k].logical_volumes

\* the position among the attached logical volumes of group k of the one
\* declared at position j
LvPosition(k, j) ==
    CHOOSE a \in 1..Len(GenLvs(k)) : GenLvs(k)[a].name = Val(CfgLvs(k)[j].name)

\* every generated partition, RAID device and logical volume of a returned
\* layout satisfies P(declared, generated)
EveryGenerated(P(_, _)) ==
    /\ Len(result.val.partition_tables) = Len(CfgTables)
    /\ \A t \in 1..Len(CfgTables) :
          /\ Len(result.val.partition_tables[t].partitions) = Len(CfgPartitions(t))
          /\ \A i \in 1..Len(CfgPartitions(t)) : P(CfgPartitions(t)[i], GenPartition(t, i))
    /\ Len(result.val.software_raid) = Len(CfgRaids)
    /\ \A r \in 1..Len(CfgRaids) : P(CfgRaids[r], result.val.software_raid[r])
    /\ Len(result.val.volume_groups) = Len(CfgVgs)
    /\ \A k \in 1..Len(CfgVgs) :
          /\ Len(GenLvs(k)) = Len(CfgLvs(k))
          /\ \A j \in 1..Len(CfgLvs(k)) :
                /\ \E a \in 1..Len(GenLvs(k)) : GenLvs(k)[a].name = Val(CfgLvs(k)[j].name)
                /\ P(CfgLvs(k)[j], GenLvs(k)[LvPosition(k, j)])

----------------------------------------------------------------------------
(* C2: the computed fsck pass *)

\* the pass the claim gives to an object declared as d
C2_Pass(d) ==
    IF ~Has(d.file_system) THEN PyFalse
    ELSE IF Val(d.file_system).require_fsck /\ Has(d.mount_point) /\ Val(d.mount_point) = Root
    THEN PyInt(1)
    ELSE IF Val(d.file_system).require_fsck /\ Has(d.mount_point) /\ Val(d.mount_point) # <<>>
    THEN PyInt(2)
    ELSE PyInt(0)

C2_HasPass(d, o) == o.fsck_option = C2_Pass(d)

\* a configuration about the fsck pass that sets no fsck_option anywhere and
\* declares supported file systems only
C2_Case ==
    /\ pc = "done" /\ result.op = "layout_from_config"
    /\ Cfg \in FsckConfigs
    /\ \A d \in CfgObjects :
          /\ ~Has(d.fsck_option)
          /\ Has(d.file_system) => Val(Val(d.file_system).type) \in FsSelector

\* C2: when the configuration sets no fsck_option, generation succeeds and the
\* fsck pass of every partition, RAID device and logical volume is the disabled
\* sentinel without a file system, 1 for a file system that requires fsck
\* mounted at "/", 2 for one mounted at another non-empty path, and 0 when the
\* file system requires no fsck or there is no mount point.
C2_ComputedFsckPass ==
    C2_Case => result.err = "" /\ EveryGenerated(C2_HasPass)

----------------------------------------------------------------------------
(* C3: an explicit fsck_option *)

\* the pass compares equal to the configured number (in Python False == 0)
C3_KeepsOption(d, o) == Has(d.fsck_option) => o.fsck_option.v = Val(d.fsck_option)

\* C3: every generated partition, logical volume and RAID device whose
\* configuration sets fsck_option has that value as its fsck pass, whatever
\* the file system (none included) and the mount point.
C3_ExplicitFsckWins ==
    (LayoutFromConfigReturned /\ Cfg \in FsckConfigs) => EveryGenerated(C3_KeepsOption)

----------------------------------------------------------------------------
(* C4: the linkers between runs *)

C4_DeclaredNames ==
    UNION {{Val(CfgPartitions(t)[i].name) : i \in 1..Len(CfgPartitions(t))} :
              t \in 1..Len(CfgTables)}

\* the run declares volume groups, flags no partition lvm and declares no RAID
\* device as a physical volume; its RAID members are declared partitions and
\* its logical volumes have file systems
C4_Case ==
    /\ pc = "done" /\ result.op = "layout_from_config"
    /\ Len(CfgVgs) > 0
    /\ \A k \in 1..Len(CfgVgs) :
          /\ Has(CfgVgs[k].logical_volumes)
          /\ \A j \in 1..Len(CfgLvs(k)) : Has(CfgLvs(k)[j].file_system)
    /\ \A d \in CfgObjects : "flags" \in DOMAIN d =>
          "lvm" \notin (IF Has(d.flags) THEN Val(d.flags) ELSE {})
    /\ \A r \in 1..Len(CfgRaids) :
          /\ ~Has(CfgRaids[r].pv)
          /\ \A m \in 1..Len(CfgRaids[r].partitions) :
                CfgRaids[r].partitions[m] \in C4_DeclaredNames

\* C4: in any sequence of runs of layout_from_config in one process, a run
\* that declares volume groups while no partition of it is flagged lvm and no
\* RAID device of it declares pv fails with GeneratorError, whatever the runs
\* before it generated.
C4_LinkerIsolation == C4_Case => result.err = "GeneratorError"

----------------------------------------------------------------------------
(* C5: the resolution of physical volumes *)

\* the names flagged lvm and the pv names of the run
C5_LvmNames ==
    {Val(d.name) : d \in {d \in CfgObjects :
        "flags" \in DOMAIN d /\ Has(d.flags) /\ "lvm" \in Val(d.flags)}}

C5_RaidPvNames == {Val(CfgRaids[r].pv) : r \in {r \in 1..Len(CfgRaids) : Has(CfgRaids[r].pv)}}

C5_Refs(k) ==
    IF Has(CfgVgs[k].physical_volumes) THEN Val(CfgVgs[k].physical_volumes) ELSE <<>>

C5_Resolves(k) ==
    /\ Len(C5_Refs(k)) > 0
    /\ \A j \in 1..Len(C5_Refs(k)) : C5_Refs(k)[j] \in C5_LvmNames \cup C5_RaidPvNames

\* the generated RAID device or partition of that name
C5_Object(name) ==
    IF name \in C5_RaidPvNames
    THEN result.val.software_raid[CHOOSE r \in 1..Len(CfgRaids) : CfgRaids[r].pv = Some(name)]
    ELSE GenPartition(1, CHOOSE i \in 1..Len(CfgPartitions(1)) :
                            CfgPartitions(1)[i].name = Some(name))

\* a run in a fresh process that declares volume groups, each with its
\* logical_volumes list, and whose RAID members are declared partitions
C5_Case ==
    /\ pc = "done" /\ result.op = "layout_from_config"
    /\ Cfg \in LinkConfigs
    /\ Len(CfgVgs) > 0
    /\ \A k \in 1..Len(CfgVgs) : Has(CfgVgs[k].logical_volumes)
    /\ \A r \in 1..Len(CfgRaids) :
          \A m \in 1..Len(CfgRaids[r].partitions) :
              CfgRaids[r].partitions[m] \in C4_DeclaredNames

\* C5: in a run started with empty linkers a physical_volumes name resolves
\* exactly when it is the name of a partition flagged lvm or the pv name of a
\* RAID device; when every name resolves each volume group gets one
\* PhysicalVolume per reference, in declared order, wrapping that object;
\* otherwise, or when a group declares no physical volumes, generation fails
\* with GeneratorError and no volume group is attached.
C5_PvResolution ==
    C5_Case =>
        IF \A k \in 1..Len(CfgVgs) : C5_Resolves(k)
        THEN /\ result.err = ""
             /\ Len(result.val.volume_groups) = Len(CfgVgs)
             /\ \A k \in 1..Len(CfgVgs) :
                   result.val.volume_groups[k].physical_volumes =
                       [j \in 1..Len(C5_Refs(k)) |->
                           [cls |-> "PhysicalVolume", reference |-> C5_Object(C5_Refs(k)[j])]]
        ELSE /\ result.err = "GeneratorError"
             /\ result.val.volume_groups = <<>>

----------------------------------------------------------------------------
(* C6: the order of logical volumes *)

\* the number of "/" in a mount point, 0 for a missing one
C6_Depth(mount_point) ==
    IF Has(mount_point)
    THEN Cardinality({i \in 1..Len(Val(mount_point)) : Val(mount_point)[i] = "/"})
    ELSE 0

\* the attached volumes of group k are the declared ones, each once
C6_SameVolumes(k) ==
    /\ Len(GenLvs(k)) = Len(CfgLvs(k))
    /\ \A j \in 1..Len(CfgLvs(k)) :
          /\ \E a \in 1..Len(GenLvs(k)) : GenLvs(k)[a].name = Val(CfgLvs(k)[j].name)
          /\ GenLvs(k)[LvPosition(k, j)].mount_point = CfgLvs(k)[j].mount_point
    /\ \A i, j \in 1..Len(CfgLvs(k)) : i # j => LvPosition(k, i) # LvPosition(k, j)

\* C6: the logical volumes of every volume group are attached in ascending
\* order of the number of "/" in their mount point (0 for a missing mount
\* point), volumes of equal count in their declared order.
C6_LvOrder ==
    LayoutFromConfigReturned =>
        \A k \in 1..Len(CfgVgs) :
            /\ C6_SameVolumes(k)
            /\ \A a, b \in 1..Len(GenLvs(k)) :
                  a < b => C6_Depth(GenLvs(k)[a].mount_point)
                              <= C6_Depth(GenLvs(k)[b].mount_point)
            /\ \A i, j \in 1..Len(CfgLvs(k)) :
                  (i < j /\ C6_Depth(CfgLvs(k)[i].mount_point)
                               = C6_Depth(CfgLvs(k)[j].mount_point))
                      => LvPosition(k, i) < LvPosition(k, j)

\* declared /var/log, /, /var and attached /, /var, /var/log
C6_Witness ==
    /\ LayoutFromConfigReturned
    /\ Len(CfgVgs) = 1
    /\ [j \in 1..Len(CfgLvs(1)) |-> CfgLvs(1)[j].mount_point]
          = <<Some(MountVarLog), Some(Root), Some(MountVar)>>
    /\ [a \in 1..Len(GenLvs(1)) |-> GenLvs(1)[a].mount_point]
          = <<Some(Root), Some(MountVar), Some(MountVarLog)>>

----------------------------------------------------------------------------
(* C7: the mount hierarchy *)

\* path a is a proper ancestor of path b: "/" of every other path, else a
\* followed by "/" is a prefix of b
C7_ProperAncestor(a, b) ==
    /\ a # b
    /\ Len(a) > 0 /\ Len(b) > 0
    /\ \/ a = Root
       \/ /\ Len(a) < Len(b)
          /\ SubSeq(b, 1, Len(a)) = a
          /\ b[Len(a) + 1] = "/"

\* C7: a logical volume whose mount point is a proper ancestor of another
\* volume's mount point is attached before that volume.
C7_HierarchyRespected ==
    LayoutFromConfigReturned =>
        \A k \in 1..Len(CfgVgs) :
            \A a, b \in 1..Len(GenLvs(k)) :
                (/\ Has(GenLvs(k)[a].mount_point)
                 /\ Has(GenLvs(k)[b].mount_point)
                 /\ C7_ProperAncestor(Val(GenLvs(k)[a].mount_point),
                                      Val(GenLvs(k)[b].mount_point)))
                    => a < b

----------------------------------------------------------------------------
(* C8: the aligned start *)

\* create_partition ran on a table that had a last partition
C8_Case ==
    pc = "done" /\ result.op = "create_partition" /\ Has(result.last_partition)

C8_End == Val(result.last_partition).end

----------------------------------------------------------------------------
(* C9: the size check *)

C9_Case == pc = "done" /\ result.op = "create_partition"

\* the mkpart command of the partition asked for
C9_Requested(c) == c.cmd = "mkpart" /\ c.type = args.type_or_name

----------------------------------------------------------------------------
(* C10: the label on a host without UEFI *)

C10_Case ==
    pc = "done" /\ result.op = "set_disk_labels" /\ result.err = "" /\ ~host.efi

\* the disk table t is bound to
C10_Disk(t) == Val(ResolveDisk(CfgTables[t], LayoutStub(host)).val)

\* at least 2 * 2^40 bytes, in limbs of 2^20
C10_TwoTebibytes(size) == size.hi >= 2 * 1024 * 1024

----------------------------------------------------------------------------
(* C11: the BIOS boot partition on a host without UEFI *)

\* the partitions table t declares
C11_Declared(t) == Val(CfgTables[t].partitions)

\* set_disk_labels returned on a host without UEFI, every table declaring at
\* least one partition, for a configuration that sets no_bios_boot_partition
\* in partition table objects only
C11_Case ==
    /\ C10_Case
    /\ ~Cfg.no_bios_boot_partition
    /\ \A t \in 1..Len(CfgTables) : Len(C11_Declared(t)) > 0

\* the partition table object of table t sets no_bios_boot_partition
C11_Suppressed(t) == CfgTables[t].no_bios_boot_partition = Some(TRUE)

C11_FirstHasBiosGrub(t) ==
    /\ Has(C11_Declared(t)[1].flags)
    /\ "bios_grub" \in Val(C11_Declared(t)[1].flags)

C11_Inserts(t) ==
    /\ IsFirstDisk(LayoutStub(host), C10_Disk(t))
    /\ ~C11_Suppressed(t)
    /\ ~C11_FirstHasBiosGrub(t)

\* C11: on a host without UEFI, a table whose disk has at least 2 * 2^40 bytes
\* gets the 1 MiB bios_grub partition in front of its partitions exactly when
\* the disk is the first enumerated disk, the partition table object does not
\* set no_bios_boot_partition and the first declared partition does not carry
\* bios_grub; otherwise its partitions are left as declared.
C11_BiosBootInsertion ==
    C11_Case =>
        \A t \in 1..Len(CfgTables) :
            C10_TwoTebibytes(C10_Disk(t).size) =>
                result.val[t].partitions =
                    IF C11_Inserts(t)
                    THEN Some(<<BiosBootPartition>> \o C11_Declared(t))
                    ELSE Some(C11_Declared(t))

----------------------------------------------------------------------------
(* C12: the labels and the EFI system partition on a UEFI host *)

C12_Case ==
    pc = "done" /\ result.op = "set_disk_labels" /\ result.err = "" /\ host.efi

C12_DeclaresEfi(t) ==
    \E i \in 1..Len(C11_Declared(t)) :
        /\ Has(C11_Declared(t)[i].file_system)
        /\ Val(C11_Declared(t)[i].file_system).type = Some("efi")

\* 253 MiB, flag boot, an EFI file system mounted at /boot/efi
C12_IsEfiBoot(p) ==
    /\ p.size = Some(PyStr(<<"2", "5", "3", "M", "i", "B">>))
    /\ p.flags = Some({"boot"})
    /\ Val(p.file_system).type = Some("efi")
    /\ p.mount_point = Some(<<"/", "b", "o", "o", "t", "/", "e", "f", "i">>)

C12_NoBiosBoot(t) ==
    \A i \in 1..Len(Val(result.val[t].partitions)) :
        LET p == Val(result.val[t].partitions)[i] IN
        (Has(p.flags) /\ "bios_grub" \in Val(p.flags)) =>
            \E j \in 1..Len(C11_Declared(t)) : C11_Declared(t)[j] = p

\* C12: on a UEFI host, after set_disk_labels every table has the label gpt;
\* a table bound to the first enumerated disk has the EFI system partition in
\* front of its declared partitions exactly when it declares no partition with
\* an EFI file system; the partitions of every other table are as declared,
\* and no bios_grub partition was added.
C12_UefiLabels ==
    C12_Case =>
        /\ Len(result.val) = Len(CfgTables)
        /\ \A t \in 1..Len(CfgTables) :
              /\ result.val[t].label = Some("gpt")
              /\ C12_NoBiosBoot(t)
              /\ IF IsFirstDisk(LayoutStub(host), C10_Disk(t)) /\ ~C12_DeclaresEfi(t)
                 THEN /\ Len(Val(result.val[t].partitions)) = Len(C11_Declared(t)) + 1
                      /\ C12_IsEfiBoot(Val(result.val[t].partitions)[1])
                      /\ Tail(Val(result.val[t].partitions)) = C11_Declared(t)
                 ELSE result.val[t].partitions = Some(C11_Declared(t))

\* two disks: the table of the first disk asked for msdos and declared no EFI
\* file system, the table of the second disk is left as declared
C12_Witness ==
    /\ C12_Case
    /\ Len(CfgTables) = 2
    /\ IsFirstDisk(LayoutStub(host), C10_Disk(1))
    /\ CfgTables[1].label = Some("msdos")
    /\ C11_Declared(1) = <<PlainPartition("p1")>>
    /\ C12_IsEfiBoot(Val(result.val[1].partitions)[1])
    /\ ~IsFirstDisk(LayoutStub(host), C10_Disk(2))
    /\ result.val[2].partitions = Some(C11_Declared(2))
    /\ result.val[2].label = Some("gpt")

----------------------------------------------------------------------------
(* C13: the names of the partitions of a gpt table *)

C13_Case ==
    pc = "done" /\ result.op = "generate_partitions" /\ args.table_type = "gpt"

\* the declared name, or p<i> with i counted from 0
C13_Name(i) ==
    IF Has(args.partition_dicts[i].name)
    THEN Val(args.partition_dicts[i].name)
    ELSE "p" \o ToString(i - 1)

\* C13: for a gpt table generate_partitions succeeds whether or not the
\* partitions declare a name, and partition i (from 0) is named by its
\* declared name, or p<i> without one.
C13_GptNaming ==
    C13_Case =>
        /\ result.err = ""
        /\ Len(result.val) = Len(args.partition_dicts)
        /\ \A i \in 1..Len(args.partition_dicts) :
              result.val[i].type_or_name = C13_Name(i)

----------------------------------------------------------------------------
(* C14: the strings PercentString accepts *)

C14_Case == pc = "done" /\ result.op = "PercentString"

\* s is k digits of value 0..100, '%', and nothing or FREE in any letter case
C14_WellFormed(s, k) ==
    /\ Len(s) > k
    /\ IsDigit(SubSeq(s, 1, k))
    /\ IntOf(SubSeq(s, 1, k)) <= 100
    /\ s[k + 1] = "%"
    /\ \/ Len(s) = k + 1
       \/ Upper(SubSeq(s, k + 2, Len(s))) = <<"F", "R", "E", "E">>

\* C14: PercentString accepts exactly the strings of one to three digits of
\* value 0..100, then '%', then nothing or FREE in any letter case; it stores
\* value/100 (kept in hundredths) and sets the free flag exactly for the FREE
\* suffix; every other string raises ValueError.
C14_PercentStrings ==
    C14_Case =>
        IF \E k \in 1..3 : C14_WellFormed(args.our_string, k)
        THEN /\ result.err = ""
             /\ \E k \in 1..3 :
                   /\ C14_WellFormed(args.our_string, k)
                   /\ result.val.value = IntOf(SubSeq(args.our_string, 1, k))
                   /\ result.val.free = (Len(args.our_string) > k + 1)
        ELSE result.err = "ValueError"

----------------------------------------------------------------------------
(* C15: sections missing from the configuration document *)

\* run() is over, for a document whose sections and keys are present or absent
C15_Case ==
    /\ pc = "done" /\ (result.op = "run" \/ result.err # "")
    /\ args.op = "run"
    /\ args.press_configuration \in SectionConfigurations

C15_Localization == args.press_configuration.localization
C15_Auth == args.press_configuration.auth
C15_Network == args.press_configuration.network

C15_Wrote(path) == \E i \in 1..Len(target.writes) : target.writes[i].path = path

C15_Ran(section) == \E i \in 1..Len(target.commands) : target.commands[i].section = section

\* C15: run() returns without raising whichever of localization, its language
\* and timezone, auth, its users and groups, and network.hostname are absent,
\* and nothing is written or run in the target for an absent section.
C15_MissingSections ==
    C15_Case =>
        /\ result.err = ""
        /\ (~Has(C15_Localization) \/ ~Has(Val(C15_Localization).language))
              => ~C15_Wrote("/etc/locale.conf")
        /\ (~Has(C15_Network) \/ ~Has(Val(C15_Network).hostname))
              => ~C15_Wrote("/etc/hostname")
        /\ ~Has(C15_Auth) => target.commands = <<>>
        /\ (Has(C15_Auth) /\ ~Has(Val(C15_Auth).users)) => ~C15_Ran("users")
        /\ (Has(C15_Auth) /\ ~Has(Val(C15_Auth).groups)) => ~C15_Ran("groups")

----------------------------------------------------------------------------
(* C16: accounts are created once *)

C16_Commands(cmd) == {i \in 1..Len(target.commands) : target.commands[i].command.cmd = cmd}

\* no groupadd for a group that is in the group database when it is issued
C16_NoGroupaddForExisting ==
    \A i \in C16_Commands("groupadd") :
        target.commands[i].command.group \notin target.commands[i].groups

\* no useradd for a user that is in the user database when it is issued
C16_NoUseraddForExisting ==
    \A i \in C16_Commands("useradd") :
        target.commands[i].command.user \notin target.commands[i].users

\* while the user root is worked on, only its password is set
C16_RootUntouched ==
    /\ \A i \in C16_Commands("groupadd") \cup C16_Commands("useradd") :
          ~(target.commands[i].section = "users" /\ target.commands[i].key = "root")
    /\ (pc \in {"set_hostname", "done"} /\ result.err = "" /\ args.op = "run"
        /\ Has(args.press_configuration.auth)
        /\ Has(Val(args.press_configuration.auth).users))
          => \A u \in 1..Len(Val(Val(args.press_configuration.auth).users)) :
                LET e == Val(Val(args.press_configuration.auth).users)[u] IN
                (e.key = "root" /\ Has(e.value) /\ Has(Val(e.value).password)) =>
                    \E i \in C16_Commands("chpasswd") :
                        target.commands[i].command.user = "root"

\* each group name has at most one groupadd
C16_OncePerGroup ==
    \A i \in C16_Commands("groupadd") : \A j \in C16_Commands("groupadd") :
        target.commands[i].command.group = target.commands[j].command.group => i = j

\* a group name has a second groupadd only after a groupadd for it failed
C16_OncePerGroupUnlessFailed ==
    \A i \in C16_Commands("groupadd") : \A j \in C16_Commands("groupadd") :
        (i < j /\ target.commands[i].command.group = target.commands[j].command.group)
            => ~target.commands[i].ok

----------------------------------------------------------------------------
(* C17: a failed install of the management agent *)

\* the steps of run() that installed the management agent: srvadmin-all for
\* the Debian family, the package set for Enterprise Linux
C17_AgentInstalls ==
    {i \in 1..Len(target.commands) :
        /\ target.commands[i].step \in {"install_package", "install_packages"}
        /\ target.commands[i].packages[1] = "srvadmin-all"}

\* run() is over and the target reported a failure for the agent install
C17_Case ==
    /\ pc = "done" /\ result.op = "plugin_run"
    /\ \E i \in C17_AgentInstalls : target.commands[i].result

\* C17: for every plugin variant, when the target reports a failure for the
\* install of the management agent package or package set, run() raises
\* ServerManagementException naming it, and no step follows the install.
C17_AgentInstallFatal ==
    C17_Case =>
        \A i \in C17_AgentInstalls :
            /\ result.err = "ServerManagementException"
            /\ result.val = target.commands[i].packages
            /\ i = Len(target.commands)

----------------------------------------------------------------------------
(* C18: the first logical partition *)

\* create_partition returned after it made the extended partition for a
\* logical one
C18_Case ==
    /\ pc = "done" /\ result.op = "create_partition" /\ result.err = ""
    /\ args.type_or_name = "logical"
    /\ Len(result.cmds) >= 2
    /\ result.cmds[1].cmd = "mkpart" /\ result.cmds[1].type = "extended"

\* C18: for a logical partition of size S on an msdos table without an
\* extended partition, create_partition makes the extended partition from the
\* working start s to the size of the table - 1, then the logical partition
\* from s + partition_start to that start + S, inside the extended partition,
\* and returns 5.
C18_FirstLogical ==
    C18_Case =>
        /\ result.cmds[1] = MkpartCmd("extended", result.start, device.size - 1)
        /\ result.cmds[2] =
              MkpartCmd("logical", result.start + parted.partition_start,
                        result.start + parted.partition_start + args.part_size)
        /\ result.cmds[2].end - result.cmds[2].start = args.part_size
        /\ result.cmds[1].start <= result.cmds[2].start
        /\ result.cmds[2].end <= result.cmds[1].end
        /\ result.val = Some(5)

----------------------------------------------------------------------------
(* C20: a request that is too large *)

\* the call of create_partition that is pending fails with the size check
C20_TooLarge ==
    /\ pc = "create_partition" /\ pc' = "done"
    /\ result'.err = "PartedInterfaceException"

\* C20: whenever create_partition fails with the partition-too-large error it
\* has issued no command to the tool and the partition table of the device is
\* as it was before the call, also for a logical partition on an msdos table
\* without an extended partition.
C20_NothingChanged ==
    [][C20_TooLarge => (result'.cmds = <<>> /\ device' = device)]_vars

\* a logical partition that is too large was asked of an msdos table that has
\* a primary partition and no extended one, and the table has no extended one
C20_Witness ==
    /\ pc = "done" /\ result.op = "create_partition"
    /\ result.err = "PartedInterfaceException"
    /\ args.type_or_name = "logical"
    /\ device.label = "msdos"
    /\ Len(device.partitions) = 1
    /\ ~Has(ExtendedPartition(device))

----------------------------------------------------------------------------
(* C19: wipe_table *)

\* the table wipe_table found has a recognised label and the tool carries
\* out every removal
C19_Case ==
    /\ args.op = "wipe_table"
    /\ args.found.label # "unknown"
    /\ args.found.healthy

\* the numbers of the partitions the table found lists once its extended
\* partition and the logical partitions in it are gone, in listed order
C19_Remaining ==
    LET rows == SelectSeq(args.found.partitions,
                          LAMBDA row : ~(Has(ExtendedPartition(args.found))
                                         /\ row.type \in {"extended", "logical"}))
    IN  [i \in 1..Len(rows) |-> rows[i].number]

\* the numbers wipe_table is to remove, in order: the extended partition
\* first, then the others as listed
C19_Order ==
    (IF Has(ExtendedPartition(args.found))
     THEN <<Val(ExtendedPartition(args.found)).number>> ELSE <<>>)
    \o C19_Remaining

\* C19: on a device with a recognised label where every removal succeeds,
\* wipe_table removes the extended partition first if there is one, then each
\* partition still listed, in listed order; every remove command names a
\* partition the table has when it is issued; when wipe_table returns the
\* table has no partitions.
C19_WipeTable ==
    C19_Case =>
        /\ \A i \in 1..Len(result.cmds) :
              /\ result.cmds[i].number \in result.cmds[i].numbers
              /\ i <= Len(C19_Order) /\ result.cmds[i].number = C19_Order[i]
        /\ pc = "done" =>
              /\ result.err = ""
              /\ Len(result.cmds) = Len(C19_Order)
              /\ device.partitions = <<>>

\* a table with a primary, an extended and another primary partition and two
\* logical partitions was wiped with three commands: 2, 1, 3
C19_Witness ==
    /\ C19_Case /\ pc = "done"
    /\ Len(args.found.partitions) = 5
    /\ args.found.partitions[2].type = "extended"
    /\ [i \in 1..Len(result.cmds) |-> result.cmds[i].number] = <<2, 1, 3>>
    /\ device.partitions = <<>>


----------------------------------------------------------------------------
(* C21: where create_partition puts the partitions of an empty table *)

\* every call so far returned, and at least one was made
C21_Case == ~result.failed /\ Len(result.created) >= 1

\* the partition asked for lies within the table and has bytes
C21_WellFormed(p) == p.start < p.end /\ p.end < device.size

\* every partition after the first starts on a multiple of the alignment
C21_Aligned ==
    \A i \in 2..Len(result.created) : result.created[i].start % parted.alignment = 0

\* the partitions share no byte, and each starts after the end of the one
\* created before it
C21_Disjoint ==
    /\ \A i, j \in 1..Len(result.created) :
          i < j => ~Meets(result.created[i], result.created[j].start, result.created[j].end)
    /\ \A i \in 2..Len(result.created) :
          result.created[i].start > result.created[i - 1].end

\* C21: after any sequence of calls of create_partition that returned, with
\* sizes above 0, on a labelled table that was empty, every partition asked
\* for has start < end < size of the table, every start after the first is a
\* multiple of the alignment, and the partitions are disjoint, each starting
\* after the end of the one created before it.
C21_PlacedPartitions ==
    C21_Case =>
        /\ \A i \in 1..Len(result.created) : C21_WellFormed(result.created[i])
        /\ C21_Aligned
        /\ C21_Disjoint

\* no call asked for a logical partition of an msdos table
C21_NoLogical ==
    \A i \in 1..Len(result.created) :
        ~(device.label = "msdos" /\ result.created[i].type = "logical")

\* the same for the tables no logical partition was asked of: gpt tables and
\* msdos tables of primary partitions
C21_PlacedOutsideExtended ==
    (C21_Case /\ C21_NoLogical) =>
        /\ \A i \in 1..Len(result.created) : C21_WellFormed(result.created[i])
        /\ C21_Aligned
        /\ C21_Disjoint

\* the partitions are disjoint and in order whatever their roles
C21_DisjointAlways == C21_Case => C21_Disjoint

\* a partition without bytes, or beyond the table, is the first logical
\* partition of an msdos table
C21_OnlyFirstLogical ==
    C21_Case =>
        \A i \in 1..Len(result.created) :
            \/ C21_WellFormed(result.created[i])
            \/ /\ device.label = "msdos" /\ result.created[i].type = "logical"
               /\ \A j \in 1..(i - 1) : result.created[j].type # "logical"

\* three partitions were created on a gpt table
C21_ThreeOnGpt ==
    C21_Case /\ device.label = "gpt" /\ Len(result.created) = 3
====
